---- MODULE Spec2Model ----
(***************************************************************************)
(* Resilient multi-provider API gateway of the keyword-research            *)
(* application.                                                            *)
(*                                                                         *)
(* Part I   - the keyword-metrics provider cascade (KeywordProvider over   *)
(*            DataForSEOClient and AhrefsClient): specification SpecCascade*)
(* Part II  - the per-provider admission layer (token bucket and circuit   *)
(*            breaker) as used by GeminiClient and FirecrawlScraper:       *)
(*            specification SpecGateway (two concurrent callers); the      *)
(*            request lifecycle of GeminiClient with its cache, metrics    *)
(*            and retries: specification SpecLifecycle (one caller, every  *)
(*            cache key)                                                   *)
(* Part III - inside the provider clients: the cache keys of the caching   *)
(*            operations (SpecFingerprint); GeminiClient.makeLLMRequest    *)
(*            from response.text() to parsedData and the adapter's         *)
(*            expandKeywords (SpecExtractor); one network call of a client *)
(*            operation, with its abort timer (SpecFetch, and SpecFetchLive*)
(*            with weak fairness of its steps); the limiter and breaker    *)
(*            instances the constructors obtain (SpecIsolation)            *)
(* Part IV  - around the clients: the error mapping of the expansion API   *)
(*            routes (SpecRoutes); scrapeBatch of FirecrawlScraper and     *)
(*            scrapeWithHttp of EnhancedWebScraper, URL by URL             *)
(*            (SpecScraper); the Gemini cache and metrics shared by two    *)
(*            concurrent callers over every cache key (SpecSharedCache);   *)
(*            the cache keys of requests that differ in one parameter      *)
(*            (SpecCacheHits); the Keywords Explorer flag of one           *)
(*            AhrefsClient under overlapping calls (SpecExplorer)          *)
(*                                                                         *)
(* Numbers: null / undefined is the integer NULL (-1); every real metric   *)
(* is a natural number. Confidence is in hundredths (0.95 is 95).          *)
(***************************************************************************)
EXTENDS Integers, Sequences, FiniteSets, TLC

VARIABLES
    \* ---- Part I: KeywordProvider --------------------------------------
    env,                        \* process.env: which credentials are set
    config,                     \* KeywordProvider.config
    constructed,                \* the KeywordProvider constructor has run
    dataForSEOClient,           \* KeywordProvider.dataForSEOClient != null
    ahrefsClient,               \* KeywordProvider.ahrefsClient != null
    activeProvider,             \* KeywordProvider.activeProvider
    keywordsExplorerAvailable,  \* AhrefsClient.keywordsExplorerAvailable
    call,                       \* the last cascade call: inputs and upstream answers
    result,                     \* the list of UnifiedKeywordData it returned
    \* ---- Part II: admission layer -------------------------------------
    client,                     \* the provider client under observation
    labelCallThrows,            \* what CircuitBreaker.execute does with a non-callable argument
    now,                        \* Date.now(), in ticks
    breaker,                    \* CircuitBreakerState of the client
    limiter,                    \* RateLimiterState of the client
    cache,                      \* the client's response cache: its entries, oldest write first
    requests,                   \* per caller: where its current request is, and how the last one ended
    networkFailures,            \* times of the client's failed network calls (within the monitoring period)
    metrics,                    \* GeminiClient.metrics
    calls,                      \* per caller: the public operation it is in (and its withRetry loop)
    workload,                   \* which callers are active and what they may ask for
    \* ---- Part III: inside the provider clients -------------------------
    submitted,                  \* the two requests whose cache keys are compared
    cacheKey,                   \* the cache keys computed for them, in order
    response,                   \* the model's answer: what it holds and response.text()
    parsedData,                 \* makeLLMRequest: parsedData
    extraction,                 \* makeLLMRequest: the parse path taken, what the bracket scan returned, how the request ended
    expansion,                  \* GeminiLLMProviderAdapter.expandKeywords: the mapped keywords
    fetchCall,                  \* one call of a client operation: its client, its operation, where it is, its abort timer
    upstream,                   \* what the upstream does with the call: its answer, or silence
    settled,                    \* how executeRequest (or generateContent) ended
    delivered,                  \* what the operation gave its caller
    owns,                       \* per provider client: the admission instance its constructor got from the factories
    instances,                  \* the limiter and breaker instances the factories made
    \* ---- Part IV: the route handlers, the scrapers, the plan flag -------
    handled,                    \* the requests a route handler has answered, with its responses
    scrapeRun,                  \* one scrapeBatch or scrapeWithHttp call: its URLs, where it is, its result lists
    creditsUsed,                \* FirecrawlScraper.creditsUsed
    explorerCalls               \* per caller of one AhrefsClient: its Keywords Explorer call, where it is, the requests it has sent

cascadeVars == <<env, config, constructed, dataForSEOClient, ahrefsClient,
                 activeProvider, keywordsExplorerAvailable, call, result>>
gatewayVars == <<client, labelCallThrows, now, breaker, limiter, cache, requests,
                 networkFailures, metrics, calls, workload>>
fingerprintVars == <<submitted, cacheKey>>
extractorVars == <<response, parsedData, extraction, expansion>>
fetchVars == <<fetchCall, upstream, settled, delivered>>
isolationVars == <<owns, instances>>
clientVars == <<fingerprintVars, extractorVars, fetchVars, isolationVars>>
routeVars == <<handled>>
scraperVars == <<scrapeRun, creditsUsed>>
explorerVars == <<explorerCalls>>
outerVars == <<routeVars, scraperVars, explorerVars>>
vars == <<cascadeVars, gatewayVars, clientVars, outerVars>>

-----------------------------------------------------------------------------
(* Bounds of the model *)
MaxBatch == 2       \* longest keyword batch passed to the cascade
MaxItems == 2       \* longest item list one upstream answer holds
MaxTime == 4        \* ticks of the clock the admission layer is followed for

\* Configuration of the admission layer, in ticks and tokens. The values are
\* scaled down for checking: the constructors pass failureThreshold 3 to 15,
\* recoveryTimeout 30 s to 3 min, monitoringPeriod 3 to 10 min, capacity 50
\* to 100 and 10 to 20 tokens per refillPeriod; the factory presets that
\* replace them are configuration as well.
FailureThreshold == 2
RecoveryTimeout == 2
MonitoringPeriod == 3
Capacity == 2
RefillRate == 1
RefillPeriod == 2
CacheTtl == 2
CacheMaxSize == 1   \* cache.maxSize (5000 in the GeminiClient configuration)
MaxRequests == 4    \* requests a Gemini client is followed for

NULL == -1

Min(a, b) == IF a <= b THEN a ELSE b
Max(a, b) == IF a >= b THEN a ELSE b

SeqsUpTo(S, n) == UNION {[1..k -> S] : k \in 0..n}

RECURSIVE FlatMap(_, _)
\* concatenation of Op applied to the elements of s
MapSeq(Op(_), s) == [i \in 1..Len(s) |-> Op(s[i])]
FlatMap(s, i) == IF i > Len(s) THEN <<>> ELSE s[i] \o FlatMap(s, i + 1)

-----------------------------------------------------------------------------
(* Part I - data *)

\* Keywords a caller may request. "SEO" and "seo" differ only in letter case.
Keywords == {"seo", "SEO", "ads"}
\* Keywords an upstream answer may carry: requested ones, one nobody asked
\* for ("xyz"), and the empty string.
UpstreamKeywords == {"seo", "SEO", "xyz", ""}

\* String.prototype.toLowerCase on the strings of the model
toLowerCase(k) == IF k = "SEO" THEN "seo" ELSE k

\* keyword.length
Length(k) == IF k = "" THEN 0 ELSE 3

\* The < of Array.prototype.sort's default comparison (UTF-16 code units):
\* upper-case letters sort before lower-case ones.
Rank(k) == CASE k = "" -> 0 [] k = "SEO" -> 1 [] k = "ads" -> 2
             [] k = "seo" -> 3 [] OTHER -> 4

\* Array.prototype.sort on a batch (insertion sort; the order is total, and
\* equal elements are identical strings)
RECURSIVE Insert(_, _)
Insert(k, s) ==
    IF s = <<>> THEN <<k>>
    ELSE IF Rank(k) <= Rank(Head(s)) THEN <<k>> \o s
    ELSE <<Head(s)>> \o Insert(k, Tail(s))
RECURSIVE sort(_)
sort(s) == IF s = <<>> THEN <<>> ELSE Insert(Head(s), sort(Tail(s)))

\* One item of an upstream answer: the fields the clients read.
UpstreamVolumes == {NULL, 500}
UpstreamItems == [keyword : UpstreamKeywords, volume : UpstreamVolumes]

\* An upstream answer: the request failed (rate limit, open circuit, network
\* error, non-20000 status), or it returned a list of items.
NoAnswer == [called |-> FALSE, ok |-> FALSE, items |-> <<>>]
Failed   == [called |-> TRUE,  ok |-> FALSE, items |-> <<>>]
Answered(items) == [called |-> TRUE, ok |-> TRUE, items |-> items]
UpstreamAnswers == {Failed} \cup {Answered(s) : s \in SeqsUpTo(UpstreamItems, MaxItems)}

\* Math.random(): one draw per generated record
RandomDraws == {0, 1}

ConfidenceDataForSEO == 95
ConfidenceAhrefs == 90
ConfidenceMock == 50
DataForSEOBatchSize == 1000

-----------------------------------------------------------------------------
(* Part I - DataForSEOClient *)

\* chunkArray(array, chunkSize): consecutive slices of at most chunkSize
chunkArray(array, chunkSize) ==
    [c \in 1..((Len(array) + chunkSize - 1) \div chunkSize) |->
        SubSeq(array, (c - 1) * chunkSize + 1, Min(c * chunkSize, Len(array)))]

\* The record getKeywordData pushes for one upstream item: a missing
\* search_volume becomes 0, competition and cpc are the literal 0,
\* monthly_searches is the empty list (held as its length).
DataForSEOKeywordResult(item) ==
    [keyword |-> item.keyword,
     keyword_info |-> [search_volume |-> IF item.volume = NULL THEN 0 ELSE item.volume,
                       competition |-> 0,
                       cpc |-> 0,
                       monthly_searches |-> 0]]

HasKeyword(item) == item.keyword # ""

\* What one batch contributes: nothing when its request threw (the catch
\* only logs), else one result per item that has a keyword.
DataForSEOBatchResults(answer) ==
    IF answer.ok
      THEN MapSeq(DataForSEOKeywordResult, SelectSeq(answer.items, HasKeyword))
      ELSE <<>>

\* DataForSEOClient.getKeywordData(keywords) for a non-empty batch, given the
\* upstream answer of each chunk: it always returns success, with the results
\* of the chunks that did not fail.
getKeywordData(keywords, answers) ==
    LET batches == chunkArray(keywords, DataForSEOBatchSize) IN
    [success |-> TRUE,
     data |-> FlatMap([i \in 1..Len(batches) |-> DataForSEOBatchResults(answers[i])], 1)]

-----------------------------------------------------------------------------
(* Part I - AhrefsClient *)

\* A raw Ahrefs record as normalizeAhrefsData reads it
AhrefsRaw(k, vol, sv, kd, cpc, tp) ==
    [keyword |-> k, volume |-> vol, search_volume |-> sv, difficulty |-> NULL,
     keyword_difficulty |-> kd, cpc |-> cpc, traffic_potential |-> tp,
     trend |-> NULL]

\* An item of a real Keywords Explorer answer (select=keyword,volume,...)
AhrefsUpstreamRaw(item) == AhrefsRaw(item.keyword, item.volume, NULL, NULL, NULL, NULL)

\* One record of getMockKeywordMetrics / getMockKeywordOverview; r is the
\* draw of Math.random() (0 is the least value, 1 a large one; cpc in cents)
AhrefsMockRaw(k, r) ==
    AhrefsRaw(k, NULL, 100 + r * 400, r * 99, 50 + r * 499, r * 5000)

getMockKeywordMetrics(keywords, draws) ==
    [success |-> TRUE,
     data |-> [i \in 1..Len(keywords) |-> AhrefsMockRaw(keywords[i], draws[i])]]

\* checkKeywordsExplorerAvailability: the cached flag when it is known, else
\* the outcome of the probe request. "insufficient" is a 403 'Insufficient
\* plan' answer, "error" any other failure of the probe.
ProbeOutcomes == {"ok", "insufficient", "error"}
checkKeywordsExplorerAvailability(flag, probe) ==
    IF flag # "null" THEN [available |-> flag = "true", flag |-> flag]
    ELSE IF probe = "ok" THEN [available |-> TRUE, flag |-> "true"]
    ELSE IF probe = "insufficient" THEN [available |-> FALSE, flag |-> "false"]
    ELSE [available |-> TRUE, flag |-> "null"]

\* executeRequest on a keywords-explorer endpoint: a 403 'Insufficient plan'
\* answer clears the flag before the error is thrown
FlagAfterRequest(flag, failure) == IF failure = "insufficient" THEN "false" ELSE flag

\* AhrefsClient.getKeywordMetrics({keywords}) for a non-empty batch.
\* failure is the kind of error makeRequest threw ("none" when it answered).
\* Returns the response, the flag afterwards, and the caller's array, which
\* keywords.sort() reorders in place when the request is built.
AhrefsGetKeywordMetrics(keywords, flag, probe, failure, answer, draws) ==
    LET chk == checkKeywordsExplorerAvailability(flag, probe) IN
    IF ~chk.available
      THEN [response |-> getMockKeywordMetrics(keywords, draws),
            flag |-> chk.flag, keywords |-> keywords, upstream |-> FALSE]
    ELSE IF failure # "none"
      THEN [response |-> getMockKeywordMetrics(sort(keywords), draws),
            flag |-> FlagAfterRequest(chk.flag, failure),
            keywords |-> sort(keywords), upstream |-> FALSE]
    ELSE [response |-> [success |-> TRUE,
                        data |-> MapSeq(AhrefsUpstreamRaw, answer.items)],
          flag |-> chk.flag, keywords |-> sort(keywords), upstream |-> TRUE]

\* AhrefsClient.getKeywordOverview(keyword): the same with one record
getKeywordOverview(keyword, flag, probe, failure, item, r) ==
    LET chk == checkKeywordsExplorerAvailability(flag, probe) IN
    IF ~chk.available
      THEN [response |-> [success |-> TRUE, data |-> AhrefsMockRaw(keyword, r)],
            flag |-> chk.flag, upstream |-> FALSE]
    ELSE IF failure # "none"
      THEN [response |-> [success |-> TRUE, data |-> AhrefsMockRaw(keyword, r)],
            flag |-> FlagAfterRequest(chk.flag, failure), upstream |-> FALSE]
    ELSE [response |-> [success |-> TRUE, data |-> AhrefsUpstreamRaw(item)],
          flag |-> chk.flag, upstream |-> TRUE]

-----------------------------------------------------------------------------
(* Part I - KeywordProvider: normalisation *)

\* a ?? b
Coalesce(a, b) == IF a # NULL THEN a ELSE b

normalizeDataForSEOData(rawData) ==
    LET keywordInfo == rawData.keyword_info IN
    [keyword |-> rawData.keyword,
     volume |-> keywordInfo.search_volume,
     difficulty |-> NULL,              \* no keyword_properties in a Labs result
     cpc |-> keywordInfo.cpc,
     competition |-> IF keywordInfo.competition # NULL
                       THEN keywordInfo.competition * 100
                       ELSE NULL,
     trend |-> keywordInfo.monthly_searches,   \* [] is truthy: an empty series
     source |-> "dataforseo",
     confidence |-> ConfidenceDataForSEO]

normalizeAhrefsData(rawData) ==
    [keyword |-> rawData.keyword,
     volume |-> Coalesce(rawData.volume, rawData.search_volume),
     difficulty |-> Coalesce(rawData.difficulty, rawData.keyword_difficulty),
     cpc |-> rawData.cpc,
     \* traffic_potential / 1000 * 100, capped at 100; 0 and null are falsy
     competition |-> IF rawData.traffic_potential > 0
                       THEN Min(rawData.traffic_potential \div 10, 100)
                       ELSE NULL,
     trend |-> rawData.trend,
     source |-> "ahrefs",
     confidence |-> ConfidenceAhrefs]

\* getMockKeywordData(keyword); r is the draw of Math.random(); the trend is
\* the twelve-month series of generateMockTrend (held as its length)
getMockKeywordData(keyword, r) ==
    [keyword |-> keyword,
     volume |-> Length(keyword) * 1000 + r * 4999,
     difficulty |-> r * 99,
     cpc |-> 50 + r * 499,
     competition |-> r * 99,
     trend |-> 12,
     source |-> "mock",
     confidence |-> ConfidenceMock]

\* A slip the partial-batch policy forbids: the missing keyword is filled
\* with a generated record instead of an explicit unavailable one.
UnavailableFilledWithMock(k) == getMockKeywordData(k, 0)

\* The record getBulkKeywordMetrics builds for a keyword DataForSEO did not
\* return
Unavailable(k) ==
    [keyword |-> k, volume |-> NULL, difficulty |-> NULL, cpc |-> NULL,
     competition |-> NULL, trend |-> NULL, source |-> "unavailable",
     confidence |-> 0]

-----------------------------------------------------------------------------
(* Part I - KeywordProvider: the cascade *)

PreferredProviders == {"auto", "dataforseo", "ahrefs"}

\* isDataForSEOConfigured() / isAhrefsConfigured()
isDataForSEOConfigured == env.dataforseo
isAhrefsConfigured == env.ahrefs

\* initializeProviders(): the first provider that initialises is the only
\* client created (each branch returns).
initializeProviders ==
    LET preferred == config.preferredProvider IN
    IF (preferred = "auto" \/ preferred = "dataforseo") /\ isDataForSEOConfigured
      THEN [dataForSEOClient |-> TRUE, ahrefsClient |-> FALSE, activeProvider |-> "dataforseo"]
    ELSE IF (preferred = "auto" \/ preferred = "ahrefs") /\ isAhrefsConfigured
      THEN [dataForSEOClient |-> FALSE, ahrefsClient |-> TRUE, activeProvider |-> "ahrefs"]
    ELSE [dataForSEOClient |-> FALSE, ahrefsClient |-> FALSE, activeProvider |-> "mock"]

\* new KeywordProvider(config)
Construct ==
    /\ ~constructed
    /\ constructed' = TRUE
    /\ dataForSEOClient' = initializeProviders.dataForSEOClient
    /\ ahrefsClient' = initializeProviders.ahrefsClient
    /\ activeProvider' = initializeProviders.activeProvider
    /\ UNCHANGED <<env, config, keywordsExplorerAvailable, call, result, gatewayVars, clientVars, outerVars>>

NoCall ==
    [op |-> "none", keywords |-> <<>>, dataforseo |-> <<>>,
     ahrefs |-> [attempted |-> FALSE, upstream |-> FALSE, items |-> <<>>],
     keywordsAfter |-> <<>>]

\* keywords.filter(k => !enrichedKeywords.has(k.toLowerCase()))
Missing(keywords, enriched) ==
    LET enrichedKeywords == {toLowerCase(enriched[i].keyword) : i \in 1..Len(enriched)}
        IsMissing(k) == toLowerCase(k) \notin enrichedKeywords
    IN SelectSeq(keywords, IsMissing)

\* keywords.map(keyword => this.getMockKeywordData(keyword))
MockAll(keywords, draws) ==
    [i \in 1..Len(keywords) |-> getMockKeywordData(keywords[i], draws[i])]

\* getBulkKeywordMetrics(keywords): the list returned, what was asked of
\* which upstream, the Ahrefs flag and the caller's array afterwards.
\* answers: the DataForSEO answer per chunk; probe, failure, answer: the
\* Ahrefs availability probe, the error of its request ("none": answered)
\* and its answer; draws: Math.random() per generated record.
getBulkKeywordMetrics(keywords, answers, probe, failure, answer, draws) ==
    LET untouched == [flag |-> keywordsExplorerAvailable, keywordsAfter |-> keywords,
                      dataforseo |-> <<>>,
                      ahrefs |-> [attempted |-> FALSE, upstream |-> FALSE, items |-> <<>>]]
    IN
    IF config.mockMode \/ Len(keywords) = 0
      THEN [list |-> MockAll(keywords, draws)] @@ untouched
    ELSE IF dataForSEOClient
      \* result.success is always true and result.data always a list
      THEN LET res == getKeywordData(keywords, answers)
               enriched == MapSeq(normalizeDataForSEOData, res.data)
               missing == Missing(keywords, enriched)
           IN [list |-> enriched \o MapSeq(Unavailable, missing),
               dataforseo |-> answers] @@ untouched
    ELSE IF ahrefsClient
      THEN LET res == AhrefsGetKeywordMetrics(keywords, keywordsExplorerAvailable,
                                              probe, failure, answer, draws)
           IN [list |-> MapSeq(normalizeAhrefsData, res.response.data),
               flag |-> res.flag,
               keywordsAfter |-> res.keywords,
               ahrefs |-> [attempted |-> TRUE, upstream |-> res.upstream,
                           items |-> IF res.upstream THEN answer.items ELSE <<>>]]
              @@ untouched
    ELSE [list |-> MockAll(keywords, draws)] @@ untouched

\* The inputs a call can meet, restricted to the ones the call reads
NoDraws(n) == [i \in 1..n |-> 0]
Draws(n) == [1..n -> RandomDraws]
ChunkAnswers(keywords) ==
    [1..Len(chunkArray(keywords, DataForSEOBatchSize)) -> UpstreamAnswers]
Probes == IF keywordsExplorerAvailable = "null" THEN ProbeOutcomes ELSE {"ok"}
\* <<DataForSEO answers, probe, Ahrefs failure, Ahrefs answer, draws>>
BulkInputs(keywords) ==
    LET n == Len(keywords) IN
    IF config.mockMode \/ n = 0
      THEN {<<(<<>>), "ok", "none", NoAnswer, d>> : d \in Draws(n)}
    ELSE IF dataForSEOClient
      THEN {<<a, "ok", "none", NoAnswer, NoDraws(n)>> : a \in ChunkAnswers(keywords)}
    ELSE IF ahrefsClient
      THEN {<<(<<>>), p, "none", a, NoDraws(n)>> :
                p \in Probes \ {"insufficient"}, a \in UpstreamAnswers \ {Failed}}
           \cup {<<(<<>>), pf[1], pf[2], Failed, d>> :
                pf \in (Probes \X {"insufficient", "error"}), d \in Draws(n)}
    ELSE {<<(<<>>), "ok", "none", NoAnswer, d>> : d \in Draws(n)}

GetBulkKeywordMetrics ==
    /\ constructed
    /\ call.op = "none"
    /\ \E keywords \in SeqsUpTo(Keywords, MaxBatch) :
       \E in \in BulkInputs(keywords) :
          LET out == getBulkKeywordMetrics(keywords, in[1], in[2], in[3], in[4], in[5])
          IN /\ result' = out.list
             /\ keywordsExplorerAvailable' = out.flag
             /\ call' = [op |-> "bulk", keywords |-> keywords,
                         dataforseo |-> out.dataforseo, ahrefs |-> out.ahrefs,
                         keywordsAfter |-> out.keywordsAfter]
    /\ UNCHANGED <<env, config, constructed, dataForSEOClient, ahrefsClient,
                   activeProvider, gatewayVars, clientVars, outerVars>>

\* getKeywordMetrics(keyword): the record returned (as a one-element list),
\* with the same bookkeeping as getBulkKeywordMetrics. item is the Ahrefs
\* overview answer, r the draw of Math.random().
getKeywordMetrics(keyword, answers, probe, failure, item, r) ==
    LET untouched == [flag |-> keywordsExplorerAvailable, keywordsAfter |-> <<keyword>>,
                      dataforseo |-> <<>>,
                      ahrefs |-> [attempted |-> FALSE, upstream |-> FALSE, items |-> <<>>]]
        dfs == IF dataForSEOClient THEN getKeywordData(<<keyword>>, answers).data ELSE <<>>
        afterDfs == [dataforseo |-> IF dataForSEOClient THEN answers ELSE <<>>]
    IN
    IF config.mockMode
      THEN [list |-> <<getMockKeywordData(keyword, r)>>] @@ untouched
    ELSE IF dataForSEOClient /\ Len(dfs) > 0
      THEN [list |-> <<normalizeDataForSEOData(dfs[1])>>] @@ afterDfs @@ untouched
    ELSE IF ahrefsClient
      \* result.success is always true and result.data always a record
      THEN LET res == getKeywordOverview(keyword, keywordsExplorerAvailable,
                                         probe, failure, item, r)
           IN [list |-> <<normalizeAhrefsData(res.response.data)>>,
               flag |-> res.flag,
               ahrefs |-> [attempted |-> TRUE, upstream |-> res.upstream,
                           items |-> IF res.upstream THEN <<item>> ELSE <<>>]]
              @@ afterDfs @@ untouched
    ELSE [list |-> <<getMockKeywordData(keyword, r)>>] @@ afterDfs @@ untouched

\* <<DataForSEO answers, probe, Ahrefs failure, Ahrefs answer, draw>>
NoItem == [keyword |-> "", volume |-> NULL]
SingleAhrefsInputs(answers) ==
    IF ahrefsClient
      THEN {<<answers, p, "none", Answered(<<i>>), 0>> :
                p \in Probes \ {"insufficient"}, i \in UpstreamItems}
           \cup {<<answers, pf[1], pf[2], Failed, r>> :
                pf \in (Probes \X {"insufficient", "error"}), r \in RandomDraws}
      ELSE {<<answers, "ok", "none", NoAnswer, r>> : r \in RandomDraws}
SingleInputs(keyword) ==
    IF config.mockMode
      THEN {<<(<<>>), "ok", "none", NoAnswer, r>> : r \in RandomDraws}
    ELSE IF dataForSEOClient
      THEN UNION {IF Len(getKeywordData(<<keyword>>, a).data) > 0
                    THEN {<<a, "ok", "none", NoAnswer, 0>>}
                    ELSE SingleAhrefsInputs(a) : a \in ChunkAnswers(<<keyword>>)}
    ELSE SingleAhrefsInputs(<<>>)

GetKeywordMetrics ==
    /\ constructed
    /\ call.op = "none"
    /\ \E keyword \in Keywords :
       \E in \in SingleInputs(keyword) :
          LET item == IF in[4].ok THEN in[4].items[1] ELSE NoItem
              out == getKeywordMetrics(keyword, in[1], in[2], in[3], item, in[5])
          IN /\ result' = out.list
             /\ keywordsExplorerAvailable' = out.flag
             /\ call' = [op |-> "single", keywords |-> <<keyword>>,
                         dataforseo |-> out.dataforseo, ahrefs |-> out.ahrefs,
                         keywordsAfter |-> out.keywordsAfter]
    /\ UNCHANGED <<env, config, constructed, dataForSEOClient, ahrefsClient,
                   activeProvider, gatewayVars, clientVars, outerVars>>

\* The caller takes the returned list; the provider is ready for the next call.
Return ==
    /\ call.op # "none"
    /\ call' = NoCall
    /\ result' = <<>>
    /\ UNCHANGED <<env, config, constructed, dataForSEOClient, ahrefsClient,
                   activeProvider, keywordsExplorerAvailable, gatewayVars, clientVars, outerVars>>

-----------------------------------------------------------------------------
(* Part I - specification *)

\* The admission layer at rest (Part II takes no step under SpecCascade)
InitCascade ==
    /\ env \in [dataforseo : BOOLEAN, ahrefs : BOOLEAN]
    /\ config \in [mockMode : BOOLEAN, preferredProvider : PreferredProviders]
    /\ constructed = FALSE
    /\ dataForSEOClient = FALSE
    /\ ahrefsClient = FALSE
    /\ activeProvider = "mock"
    /\ keywordsExplorerAvailable = "null"
    /\ call = NoCall
    /\ result = <<>>
    /\ client = "gemini"
    /\ labelCallThrows = FALSE
    /\ now = 0
    /\ breaker = [state |-> "closed", failures |-> <<>>, lastTransitionTime |-> 0,
                  probeInFlight |-> FALSE]
    /\ limiter = [tokens |-> 0, lastRefillTime |-> 0]
    /\ cache = <<>>
    /\ requests = <<>>
    /\ networkFailures = <<>>
    /\ metrics = [requests |-> 0, successes |-> 0, failures |-> 0, totalCost |-> 0,
                  rateLimitHits |-> 0, circuitBreakerTrips |-> 0]
    /\ calls = <<>>
    /\ workload = [callers |-> {}, keys |-> {}, operations |-> {}]
    /\ submitted = <<>>
    /\ cacheKey = <<>>
    /\ response = <<>>
    /\ parsedData = <<>>
    /\ extraction = <<>>
    /\ expansion = <<>>
    /\ fetchCall = <<>>
    /\ upstream = <<>>
    /\ settled = <<>>
    /\ delivered = <<>>
    /\ owns = <<>>
    /\ instances = <<>>
    /\ handled = <<>>
    /\ scrapeRun = <<>>
    /\ creditsUsed = <<>>
    /\ explorerCalls = <<>>

NextCascade == Construct \/ GetBulkKeywordMetrics \/ GetKeywordMetrics \/ Return

SpecCascade == InitCascade /\ [][NextCascade]_vars

-----------------------------------------------------------------------------
(* Part II - rate limiter (token bucket) *)

\* limiter.tokens counts in units of 1/RefillPeriod token, so that the lazy
\* refill tokens + elapsed / refillPeriod * refillRate is exact.
TokenUnit == RefillPeriod
FullBucket == Capacity * TokenUnit

\* A slip: the time that has passed grants nothing.
RefillForgetsElapsed(l, t) == [tokens |-> l.tokens, lastRefillTime |-> t]

\* the lazy refill at time t
Refill(l, t) ==
    [tokens |-> Min(FullBucket, l.tokens + (t - l.lastRefillTime) * RefillRate),
     lastRefillTime |-> t]

\* A slip: the token is granted and left in the bucket for the next caller.
tryConsumeNoDebit(l, cost, t) ==
    LET r == Refill(l, t) IN
    IF r.tokens >= cost * TokenUnit
      THEN [ok |-> TRUE, limiter |-> r]
      ELSE [ok |-> FALSE, limiter |-> r]

\* A slip: the bucket is debited whether or not it holds the cost.
tryConsumeUnchecked(l, cost, t) ==
    [ok |-> TRUE,
     limiter |-> [Refill(l, t) EXCEPT !.tokens = @ - cost * TokenUnit]]

\* getNextRefillTime(): when the bucket will hold a whole token again
getNextRefillTime(l) ==
    l.lastRefillTime + (Max(0, TokenUnit - l.tokens) + RefillRate - 1) \div RefillRate

\* tryConsume(cost) at time t: refill, then debit if the bucket holds the cost
tryConsume(l, cost, t) ==
    LET r == Refill(l, t) IN
    IF r.tokens >= cost * TokenUnit
      THEN [ok |-> TRUE, limiter |-> [r EXCEPT !.tokens = @ - cost * TokenUnit]]
      ELSE [ok |-> FALSE, limiter |-> r]

-----------------------------------------------------------------------------
(* Part II - circuit breaker *)

\* the failures of times that lie within the monitoring period at time t
Recent(times, t) ==
    LET InPeriod(x) == t - x < MonitoringPeriod IN SelectSeq(times, InPeriod)

RecoveryElapsed(b, t) == t - b.lastTransitionTime >= RecoveryTimeout

\* A slip: an open breaker lets a call through as a probe at any time.
BreakerGateIgnoringTimeout(b, t) ==
    IF b.state = "closed" THEN [admitted |-> TRUE, probe |-> FALSE, breaker |-> b]
    ELSE IF b.state = "open"
      THEN [admitted |-> TRUE, probe |-> TRUE,
            breaker |-> [b EXCEPT !.state = "halfOpen", !.lastTransitionTime = t,
                                  !.probeInFlight = TRUE]]
    ELSE IF b.probeInFlight THEN [admitted |-> FALSE, probe |-> FALSE, breaker |-> b]
    ELSE [admitted |-> TRUE, probe |-> TRUE, breaker |-> [b EXCEPT !.probeInFlight = TRUE]]

\* A slip: every caller that meets a half-open breaker is let through.
BreakerGateManyProbes(b, t) ==
    IF b.state = "closed" THEN [admitted |-> TRUE, probe |-> FALSE, breaker |-> b]
    ELSE IF b.state = "open"
      THEN IF RecoveryElapsed(b, t)
             THEN [admitted |-> TRUE, probe |-> TRUE,
                   breaker |-> [b EXCEPT !.state = "halfOpen", !.lastTransitionTime = t,
                                         !.probeInFlight = TRUE]]
             ELSE [admitted |-> FALSE, probe |-> FALSE, breaker |-> b]
    ELSE [admitted |-> TRUE, probe |-> TRUE, breaker |-> [b EXCEPT !.probeInFlight = TRUE]]

\* The gate of execute() at time t: Closed admits; Open rejects until the
\* recovery timeout has elapsed, then turns HalfOpen and admits the call as
\* the probe; HalfOpen admits one probe and rejects while it is in flight.
BreakerGate(b, t) ==
    IF b.state = "closed" THEN [admitted |-> TRUE, probe |-> FALSE, breaker |-> b]
    ELSE IF b.state = "open"
      THEN IF RecoveryElapsed(b, t)
             THEN [admitted |-> TRUE, probe |-> TRUE,
                   breaker |-> [b EXCEPT !.state = "halfOpen", !.lastTransitionTime = t,
                                         !.probeInFlight = TRUE]]
             ELSE [admitted |-> FALSE, probe |-> FALSE, breaker |-> b]
    ELSE IF b.probeInFlight THEN [admitted |-> FALSE, probe |-> FALSE, breaker |-> b]
    ELSE [admitted |-> TRUE, probe |-> TRUE, breaker |-> [b EXCEPT !.probeInFlight = TRUE]]

Opened(t) ==
    [state |-> "open", failures |-> <<>>, lastTransitionTime |-> t, probeInFlight |-> FALSE]
Closed(t) ==
    [state |-> "closed", failures |-> <<>>, lastTransitionTime |-> t, probeInFlight |-> FALSE]

\* execute() accounts for the outcome of the operation it invoked at time t.
\* Closed: a failure is counted, and the breaker opens when the failures
\* within the monitoring period reach the threshold. HalfOpen: the probe
\* closes the breaker on success and reopens it on failure. The outcome of a
\* call admitted before the breaker opened changes nothing while it is Open
\* or HalfOpen.
BreakerRecord(b, probe, success, t) ==
    IF b.state = "closed"
      THEN IF success THEN b
           ELSE LET failures == Recent(Append(b.failures, t), t) IN
                IF Len(failures) >= FailureThreshold THEN Opened(t)
                ELSE [b EXCEPT !.failures = failures]
    ELSE IF b.state = "halfOpen" /\ probe
      THEN IF success THEN Closed(t) ELSE Opened(t)
    ELSE b

-----------------------------------------------------------------------------
(* Part II - the provider clients *)

Callers == {1, 2}
Clients == {"gemini", "firecrawl"}
CacheKeys == 1 .. (CacheMaxSize + 1)
\* the payload of the response generateContent gives at time t to the
\* prompt of a key: one per prompt and time
Payload(key, t) == key * (MaxTime + 1) + t

Idle == [pc |-> "idle", op |-> "none", probe |-> FALSE, attempt |-> 0, last |-> "none"]
Done(op, outcome) ==
    [pc |-> "done", op |-> op, probe |-> FALSE, attempt |-> 0, last |-> outcome]
InFlight(pc, op, probe, attempt) ==
    [pc |-> pc, op |-> op, probe |-> probe, attempt |-> attempt, last |-> "none"]

-----------------------------------------------------------------------------
(* Part II - response cache *)

\* A slip: a write never evicts.
CacheSetUnbounded(store, entry) ==
    LET Others(e) == e.key # entry.key IN Append(SelectSeq(store, Others), entry)

\* A slip: a key that has an entry keeps it, the first writer wins.
CacheSetKeepingFirst(store, entry) ==
    IF \E i \in 1 .. Len(store) : store[i].key = entry.key THEN store
    ELSE Append(store, entry)

\* cache.set(key, entry): the entry replaces the one the key had; when the
\* store then holds more than maxSize entries the oldest is evicted
CacheSet(store, entry) ==
    LET Others(e) == e.key # entry.key
        written == Append(SelectSeq(store, Others), entry)
    IN IF Len(written) > CacheMaxSize THEN Tail(written) ELSE written

\* cache.get(key): the entry of the key, if there is one
CacheHas(store, key) == \E i \in 1 .. Len(store) : store[i].key = key
CacheGet(store, key) == store[CHOOSE i \in 1 .. Len(store) : store[i].key = key]

\* A slip: an entry is served however old it is.
getLLMCacheIgnoringTtl(store, key, t) ==
    IF CacheHas(store, key) THEN CacheGet(store, key).data ELSE NULL

\* getLLMCache(key): the data of the entry if it exists and is unexpired
getLLMCache(store, key, t) ==
    IF CacheHas(store, key)
          /\ t < CacheGet(store, key).timestamp + CacheGet(store, key).ttl
      THEN CacheGet(store, key).data
      ELSE NULL

\* setLLMCache(key, data): written with Date.now() and the configured ttl
setLLMCache(store, key, data, t) ==
    CacheSet(store, [key |-> key, data |-> data, timestamp |-> t, ttl |-> CacheTtl])

-----------------------------------------------------------------------------
(* Part II - retry executor *)

ExpandMaxAttempts == 2
Operations == {"classifyIntent", "expandToDream100"}

NoCallYet ==
    [pc |-> "idle", operation |-> "none", key |-> NULL, maxAttempts |-> 0, attempt |-> 0,
     retries |-> 0, error |-> "none", retryAfter |-> 0, data |-> NULL, steps |-> <<>>]

\* a caller enters a public operation; expandToDream100 wraps makeLLMRequest
\* in withRetry({maxAttempts: 2}), classifyIntent and generateTitles call it
\* once
NewCall(operation, key) ==
    [NoCallYet EXCEPT !.pc = "attempting", !.operation = operation, !.key = key,
                      !.maxAttempts = IF operation = "expandToDream100"
                                        THEN ExpandMaxAttempts ELSE 1]

\* the attempt the call makes now: its first, or the next after a backoff
Attempt(cl) ==
    [cl EXCEPT !.pc = "attempting", !.attempt = @ + 1, !.retryAfter = 0, !.steps = <<>>]

Returned(cl, data, steps) ==
    [cl EXCEPT !.pc = "returned", !.data = data, !.steps = steps, !.error = "none"]

\* A slip: only configuration errors are treated as final.
isRetryableAllButAuth(error) == error # "Auth"

\* timeouts, rate-limit signals and 5xx are retryable; validation and auth
\* errors and circuit-open rejections are not
isRetryable(error) == error \in {"RateLimit", "Upstream"}

\* A slip: the attempts are not counted.
withRetryUnbounded(cl, error, steps) ==
    IF isRetryable(error)
      THEN [cl EXCEPT !.pc = "backoff", !.retries = @ + 1, !.error = error, !.steps = steps]
      ELSE [cl EXCEPT !.pc = "failed", !.error = error, !.steps = steps]

\* A slip: every error is retried while attempts remain.
withRetryEveryError(cl, error, steps) ==
    IF cl.attempt < cl.maxAttempts
      THEN [cl EXCEPT !.pc = "backoff", !.retries = @ + 1, !.error = error, !.steps = steps]
      ELSE [cl EXCEPT !.pc = "failed", !.error = error, !.steps = steps]

\* withRetry after a failed attempt: a retryable error with attempts left
\* notifies the observer (onRetry) and sleeps the backoff; anything else
\* fails the call with this error
withRetry(cl, error, steps) ==
    IF isRetryable(error) /\ cl.attempt < cl.maxAttempts
      THEN [cl EXCEPT !.pc = "backoff", !.retries = @ + 1, !.error = error, !.steps = steps]
      ELSE [cl EXCEPT !.pc = "failed", !.error = error, !.steps = steps]

-----------------------------------------------------------------------------
(* Part II - GeminiClient *)

\* calculateCost(inputTokens, outputTokens), in units of one response
calculateCost == 1

\* A slip: only the successful requests are counted as requests.
updateLLMMetricsOfSuccesses(m, success, cost) ==
    [m EXCEPT !.requests = IF success THEN @ + 1 ELSE @,
              !.totalCost = @ + cost,
              !.successes = IF success THEN @ + 1 ELSE @,
              !.failures = IF success THEN @ ELSE @ + 1]

\* updateLLMMetrics(success, responseTime, cost)
updateLLMMetrics(m, success, cost) ==
    [m EXCEPT !.requests = @ + 1,
              !.totalCost = @ + cost,
              !.successes = IF success THEN @ + 1 ELSE @,
              !.failures = IF success THEN @ ELSE @ + 1]

\* checkGeminiRateLimit(): tryConsume() with the default cost 1
checkGeminiRateLimit(l, t) == tryConsume(l, 1, t)

\* A slip: a cache hit is counted as a request.
CachedResponseCounted(data) ==
    [request |-> Done("llm", "cached"), limiter |-> limiter, breaker |-> breaker,
     metrics |-> updateLLMMetrics(metrics, TRUE, 0), data |-> data, steps |-> <<"cache">>]

\* the return of makeLLMRequest on a cache hit: the cached data, tagged
\* finish_reason 'cached'; nothing else is touched
CachedResponse(data) ==
    [request |-> Done("llm", "cached"), limiter |-> limiter, breaker |-> breaker,
     metrics |-> metrics, data |-> data, steps |-> <<"cache">>]

\* A slip: the error says nothing about when to come back.
RateLimitedWithoutEstimate(l, t) ==
    [request |-> Done("llm", "RateLimit"), limiter |-> l, breaker |-> breaker,
     metrics |-> [metrics EXCEPT !.rateLimitHits = @ + 1], data |-> NULL,
     retryAfter |-> 0, steps |-> <<"cache", "limiter">>]

\* the throw of makeLLMRequest on a rejected admission: a rateLimitHit is
\* counted and the error carries rateLimit.retryAfter, the time to the next
\* refill
RateLimited(l, t) ==
    [request |-> Done("llm", "RateLimit"), limiter |-> l, breaker |-> breaker,
     metrics |-> [metrics EXCEPT !.rateLimitHits = @ + 1], data |-> NULL,
     retryAfter |-> getNextRefillTime(l) - t, steps |-> <<"cache", "limiter">>]

\* A slip: the model call is started before the breaker is asked, so a
\* rejected request has already reached the network.
makeLLMRequestCallBeforeGate(key, t) ==
    IF getLLMCache(cache, key, t) # NULL
      THEN CachedResponse(getLLMCache(cache, key, t))
    ELSE LET admission == checkGeminiRateLimit(limiter, t) IN
         IF ~admission.ok
           THEN RateLimited(admission.limiter, t)
         ELSE LET gate == BreakerGate(breaker, t) IN
              [request |-> InFlight("network", "llm", gate.probe, 1),
               limiter |-> admission.limiter, breaker |-> gate.breaker,
               metrics |-> metrics, data |-> NULL,
               steps |-> <<"cache", "limiter", "breaker", "network">>]

\* GeminiClient.makeLLMRequest up to the await of the network call: cache
\* lookup, rate-limiter admission, then circuitBreaker.execute(), which
\* invokes generateContent only when the gate admits the call. A rejection
\* by the limiter counts a rateLimitHit; one by the breaker is caught,
\* counted as a circuitBreakerTrip and as a failed request, and rethrown.
makeLLMRequest(key, t) ==
    IF getLLMCache(cache, key, t) # NULL
      THEN CachedResponse(getLLMCache(cache, key, t))
    ELSE LET admission == checkGeminiRateLimit(limiter, t) IN
         IF ~admission.ok
           THEN RateLimited(admission.limiter, t)
         ELSE LET gate == BreakerGate(breaker, t) IN
              IF ~gate.admitted
                THEN [request |-> Done("llm", "CircuitOpen"),
                      limiter |-> admission.limiter, breaker |-> gate.breaker,
                      metrics |-> updateLLMMetrics(
                                     [metrics EXCEPT !.circuitBreakerTrips = @ + 1],
                                     FALSE, 0),
                      data |-> NULL, steps |-> <<"cache", "limiter", "breaker", "metrics">>]
                ELSE [request |-> InFlight("network", "llm", gate.probe, 1),
                      limiter |-> admission.limiter, breaker |-> gate.breaker,
                      metrics |-> metrics, data |-> NULL,
                      steps |-> <<"cache", "limiter", "breaker", "network">>]

\* networkFailures after a step: the times of the failed network calls since
\* the breaker last changed state, within the monitoring period; the latest
\* FailureThreshold of them are enough to tell that the threshold is reached
Latest(times) ==
    IF Len(times) > FailureThreshold THEN Tail(times) ELSE times
Failures(b, failed, t) ==
    IF b.state # breaker.state THEN <<>>
    ELSE IF failed THEN Latest(Recent(Append(networkFailures, t), t))
    ELSE networkFailures

\* the requests the client has started: counted, rejected or in flight
Started ==
    metrics.requests + metrics.rateLimitHits
       + Cardinality({c \in Callers : requests[c].pc = "network"})

\* A caller enters classifyIntent / generateTitles or expandToDream100, or
\* withRetry starts the next attempt of its expandToDream100; either way
\* makeLLMRequest runs up to its first await.
GeminiMakeLLMRequest(c) ==
    /\ client = "gemini"
    /\ c \in workload.callers
    /\ requests[c].pc = "idle"
    /\ calls[c].pc \in {"idle", "retry"}
    /\ Started < MaxRequests
    /\ \E operation \in workload.operations, key \in workload.keys :
       LET cl == Attempt(IF calls[c].pc = "retry" THEN calls[c]
                                                  ELSE NewCall(operation, key))
           out == makeLLMRequest(cl.key, now)
       IN /\ requests' = [requests EXCEPT ![c] = out.request]
          /\ limiter' = out.limiter
          /\ breaker' = out.breaker
          /\ metrics' = out.metrics
          /\ networkFailures' = Failures(out.breaker, FALSE, now)
          /\ calls' = [calls EXCEPT ![c] =
                         IF out.request.pc = "network"
                           THEN [cl EXCEPT !.steps = out.steps]
                         ELSE IF out.request.last = "cached"
                           THEN Returned(cl, out.data, out.steps)
                         ELSE IF out.request.last = "RateLimit"
                           THEN [withRetry(cl, "RateLimit", out.steps)
                                    EXCEPT !.retryAfter = out.retryAfter]
                         ELSE withRetry(cl, out.request.last, out.steps)]
    /\ UNCHANGED <<client, labelCallThrows, now, cache, workload, cascadeVars, clientVars, outerVars>>

\* generateContent settles: execute() accounts for the outcome; a response
\* is parsed, written to the cache (setLLMCache) and counted with its cost;
\* an error (retryable or, like a rejected API key, fatal) is counted as a
\* failed request and rethrown to withRetry.
GeminiResponse(c) ==
    /\ client = "gemini"
    /\ requests[c].pc = "network"
    /\ \E ok \in BOOLEAN, error \in {"Upstream", "Auth"} :
       LET b == BreakerRecord(breaker, requests[c].probe, ok, now)
           data == Payload(calls[c].key, now)
       IN
       /\ breaker' = b
       /\ networkFailures' = Failures(b, ~ok, now)
       /\ cache' = IF ok THEN setLLMCache(cache, calls[c].key, data, now) ELSE cache
       /\ metrics' = updateLLMMetrics(metrics, ok, IF ok THEN calculateCost ELSE 0)
       /\ requests' = [requests EXCEPT
                         ![c] = Done("llm", IF ok THEN "success" ELSE "UpstreamError")]
       /\ calls' = [calls EXCEPT ![c] =
                      IF ok THEN Returned(@, data, @.steps \o <<"cacheWrite", "metrics">>)
                      ELSE withRetry(@, error, @.steps \o <<"metrics">>)]
    /\ UNCHANGED <<client, labelCallThrows, now, limiter, workload, cascadeVars, clientVars, outerVars>>

\* the backoff sleep of withRetry is over
GeminiBackoff(c) ==
    /\ client = "gemini"
    /\ calls[c].pc = "backoff"
    /\ requests' = [requests EXCEPT ![c] = Idle]
    /\ calls' = [calls EXCEPT ![c].pc = "retry"]
    /\ UNCHANGED <<client, labelCallThrows, now, breaker, limiter, cache,
                   networkFailures, metrics, workload, cascadeVars, clientVars, outerVars>>

-----------------------------------------------------------------------------
(* Part II - FirecrawlScraper *)

ScrapeMaxAttempts == 3

\* FirecrawlScraper.scrapeUrl, first await: this.circuitBreaker.execute() is
\* handed the label `scrape-${url}`, not the network operation.
FirecrawlScrapeUrl(c) ==
    /\ client = "firecrawl"
    /\ c \in workload.callers
    /\ requests[c].pc = "idle"
    /\ LET gate == BreakerGate(breaker, now) IN
       /\ breaker' = gate.breaker
       /\ networkFailures' = Failures(gate.breaker, FALSE, now)
       /\ requests' = [requests EXCEPT ![c] =
                         IF gate.admitted THEN InFlight("execute", "scrape", gate.probe, 0)
                         ELSE Done("scrape", "CircuitOpen")]
       /\ calls' = [calls EXCEPT ![c] =
                      [NoCallYet EXCEPT !.pc = IF gate.admitted THEN "attempting" ELSE "failed",
                                        !.operation = "scrapeUrl",
                                        !.error = IF gate.admitted THEN "none" ELSE "CircuitOpen",
                                        !.steps = <<"breaker">>]]
    /\ UNCHANGED <<client, labelCallThrows, now, limiter, cache, metrics, workload,
                   cascadeVars, clientVars, outerVars>>

\* execute() has run its "operation" (the label): either calling it threw a
\* TypeError, accounted as a failure, or it passed as a success. Then
\* rateLimiter.consume('scrape'), and the first attempt of the network call
\* inside RetryHandler.withRetry - outside the breaker.
FirecrawlScrapeAdmitted(c) ==
    /\ client = "firecrawl"
    /\ requests[c].pc = "execute"
    /\ LET b == BreakerRecord(breaker, requests[c].probe, ~labelCallThrows, now)
           admission == tryConsume(limiter, 1, now)
       IN /\ breaker' = b
          /\ networkFailures' = Failures(b, FALSE, now)
          /\ limiter' = IF labelCallThrows THEN limiter ELSE admission.limiter
          /\ requests' = [requests EXCEPT ![c] =
                            IF labelCallThrows THEN Done("scrape", "TypeError")
                            ELSE IF ~admission.ok THEN Done("scrape", "RateLimit")
                            ELSE InFlight("network", "scrape", FALSE, 1)]
          /\ calls' = [calls EXCEPT ![c] =
                         IF labelCallThrows
                           THEN [@ EXCEPT !.pc = "failed", !.error = "TypeError"]
                         ELSE IF ~admission.ok
                           THEN [@ EXCEPT !.pc = "failed", !.error = "RateLimit",
                                          !.steps = @ \o <<"limiter">>]
                         ELSE [@ EXCEPT !.steps = @ \o <<"limiter", "network">>]]
    /\ UNCHANGED <<client, labelCallThrows, now, cache, metrics, workload, cascadeVars, clientVars, outerVars>>

\* firecrawlApp.scrapeUrl settles: a failure is retried by withRetry while it
\* is retryable and attempts remain; the breaker is not told.
FirecrawlScrapeResponse(c) ==
    /\ client = "firecrawl"
    /\ requests[c].pc = "network"
    /\ requests[c].op = "scrape"
    /\ \E ok \in BOOLEAN, retryable \in BOOLEAN :
       /\ networkFailures' = Failures(breaker, ~ok, now)
       /\ requests' = [requests EXCEPT ![c] =
                         IF ok THEN Done("scrape", "success")
                         ELSE IF retryable /\ requests[c].attempt < ScrapeMaxAttempts
                           THEN InFlight("network", "scrape", FALSE, requests[c].attempt + 1)
                         ELSE Done("scrape", "UpstreamError")]
       /\ calls' = [calls EXCEPT ![c] =
                      IF ok THEN [@ EXCEPT !.pc = "returned", !.steps = @ \o <<"metrics">>]
                      ELSE IF retryable /\ requests[c].attempt < ScrapeMaxAttempts THEN @
                      ELSE [@ EXCEPT !.pc = "failed",
                                     !.error = IF retryable THEN "Upstream" ELSE "Auth",
                                     !.steps = @ \o <<"metrics">>]]
    /\ UNCHANGED <<client, labelCallThrows, now, breaker, limiter, cache, metrics,
                   workload, cascadeVars, clientVars, outerVars>>

\* FirecrawlScraper.extractWithLLM: the network call with no admission at all
FirecrawlExtractWithLLM(c) ==
    /\ client = "firecrawl"
    /\ c \in workload.callers
    /\ requests[c].pc = "idle"
    /\ requests' = [requests EXCEPT ![c] = InFlight("network", "extract", FALSE, 1)]
    /\ calls' = [calls EXCEPT ![c] =
                   [NoCallYet EXCEPT !.pc = "attempting", !.operation = "extractWithLLM",
                                     !.steps = <<"network">>]]
    /\ UNCHANGED <<client, labelCallThrows, now, breaker, limiter, cache,
                   networkFailures, metrics, workload, cascadeVars, clientVars, outerVars>>

FirecrawlExtractResponse(c) ==
    /\ client = "firecrawl"
    /\ requests[c].pc = "network"
    /\ requests[c].op = "extract"
    /\ \E ok \in BOOLEAN :
       /\ networkFailures' = Failures(breaker, ~ok, now)
       /\ requests' = [requests EXCEPT
                         ![c] = Done("extract", IF ok THEN "success" ELSE "UpstreamError")]
       /\ calls' = [calls EXCEPT ![c] =
                      IF ok THEN [@ EXCEPT !.pc = "returned", !.steps = @ \o <<"metrics">>]
                      ELSE [@ EXCEPT !.pc = "failed", !.error = "Upstream"]]
    /\ UNCHANGED <<client, labelCallThrows, now, breaker, limiter, cache, metrics,
                   workload, cascadeVars, clientVars, outerVars>>

-----------------------------------------------------------------------------
(* Part II - specifications *)

\* the caller has its result or its error
Finish(c) ==
    /\ requests[c].pc = "done"
    /\ calls[c].pc # "backoff"
    /\ requests' = [requests EXCEPT ![c] = Idle]
    /\ calls' = [calls EXCEPT ![c] = NoCallYet]
    /\ UNCHANGED <<client, labelCallThrows, now, breaker, limiter, cache,
                   networkFailures, metrics, workload, cascadeVars, clientVars, outerVars>>

\* The clock advances. Failures that left the monitoring period no longer
\* count, so they are dropped here.
Tick ==
    /\ now < MaxTime
    /\ now' = now + 1
    /\ breaker' = [breaker EXCEPT !.failures = Recent(@, now + 1)]
    /\ networkFailures' = Recent(networkFailures, now + 1)
    /\ UNCHANGED <<client, labelCallThrows, limiter, cache, requests, metrics, calls,
                   workload, cascadeVars, clientVars, outerVars>>

NoMetrics ==
    [requests |-> 0, successes |-> 0, failures |-> 0, totalCost |-> 0,
     rateLimitHits |-> 0, circuitBreakerTrips |-> 0]

\* The provider under observation and its fresh admission state, with two
\* concurrent callers that share one cache key. For
\* the Firecrawl client, execute(label) either throws or passes, whichever
\* the breaker's implementation does with a non-callable argument.
InitGateway ==
    /\ client \in Clients
    /\ labelCallThrows \in (IF client = "firecrawl" THEN BOOLEAN ELSE {FALSE})
    /\ workload = [callers |-> Callers, keys |-> {1}, operations |-> Operations]
    /\ now = 0
    /\ breaker = Closed(0)
    /\ limiter = [tokens |-> FullBucket, lastRefillTime |-> 0]
    /\ cache = <<>>
    /\ requests = [c \in Callers |-> Idle]
    /\ networkFailures = <<>>
    /\ metrics = NoMetrics
    /\ calls = [c \in Callers |-> NoCallYet]
    /\ env = [dataforseo |-> FALSE, ahrefs |-> FALSE]
    /\ config = [mockMode |-> FALSE, preferredProvider |-> "auto"]
    /\ constructed = FALSE
    /\ dataForSEOClient = FALSE
    /\ ahrefsClient = FALSE
    /\ activeProvider = "mock"
    /\ keywordsExplorerAvailable = "null"
    /\ call = NoCall
    /\ result = <<>>
    /\ submitted = <<>>
    /\ cacheKey = <<>>
    /\ response = <<>>
    /\ parsedData = <<>>
    /\ extraction = <<>>
    /\ expansion = <<>>
    /\ fetchCall = <<>>
    /\ upstream = <<>>
    /\ settled = <<>>
    /\ delivered = <<>>
    /\ owns = <<>>
    /\ instances = <<>>
    /\ handled = <<>>
    /\ scrapeRun = <<>>
    /\ creditsUsed = <<>>
    /\ explorerCalls = <<>>

\* One caller of the Gemini client, with every operation and cache key.
InitLifecycle ==
    /\ client = "gemini"
    /\ labelCallThrows = FALSE
    /\ workload = [callers |-> {1}, keys |-> CacheKeys, operations |-> Operations]
    /\ now = 0
    /\ breaker = Closed(0)
    /\ limiter = [tokens |-> FullBucket, lastRefillTime |-> 0]
    /\ cache = <<>>
    /\ requests = [c \in Callers |-> Idle]
    /\ networkFailures = <<>>
    /\ metrics = NoMetrics
    /\ calls = [c \in Callers |-> NoCallYet]
    /\ env = [dataforseo |-> FALSE, ahrefs |-> FALSE]
    /\ config = [mockMode |-> FALSE, preferredProvider |-> "auto"]
    /\ constructed = FALSE
    /\ dataForSEOClient = FALSE
    /\ ahrefsClient = FALSE
    /\ activeProvider = "mock"
    /\ keywordsExplorerAvailable = "null"
    /\ call = NoCall
    /\ result = <<>>
    /\ submitted = <<>>
    /\ cacheKey = <<>>
    /\ response = <<>>
    /\ parsedData = <<>>
    /\ extraction = <<>>
    /\ expansion = <<>>
    /\ fetchCall = <<>>
    /\ upstream = <<>>
    /\ settled = <<>>
    /\ delivered = <<>>
    /\ owns = <<>>
    /\ instances = <<>>
    /\ handled = <<>>
    /\ scrapeRun = <<>>
    /\ creditsUsed = <<>>
    /\ explorerCalls = <<>>

GeminiStep ==
    \E c \in Callers : GeminiMakeLLMRequest(c) \/ GeminiResponse(c) \/ GeminiBackoff(c)
FirecrawlStep ==
    \E c \in Callers :
        \/ FirecrawlScrapeUrl(c) \/ FirecrawlScrapeAdmitted(c) \/ FirecrawlScrapeResponse(c)
        \/ FirecrawlExtractWithLLM(c) \/ FirecrawlExtractResponse(c)
FinishStep == \E c \in Callers : Finish(c)

NextGateway == GeminiStep \/ FirecrawlStep \/ FinishStep \/ Tick

SpecGateway == InitGateway /\ [][NextGateway]_vars

NextLifecycle == GeminiStep \/ FinishStep \/ Tick

SpecLifecycle == InitLifecycle /\ [][NextLifecycle]_vars

-----------------------------------------------------------------------------
(* Part I - properties of the cascade *)

\* number of positions of s that hold k
Occurrences(s, k) == Cardinality({i \in 1..Len(s) : s[i] = k})
ResultKeywords == [i \in 1..Len(result) |-> result[i].keyword]
RealSources == {"dataforseo", "ahrefs"}

\* a bulk call that went to a configured provider (mock mode off)
BulkProviderCall ==
    /\ call.op = "bulk"
    /\ ~config.mockMode
    /\ dataForSEOClient \/ ahrefsClient

\* the items the upstream returned during the last call
DataForSEOReturned ==
    UNION {{call.dataforseo[c].items[i] : i \in 1..Len(call.dataforseo[c].items)} :
              c \in 1..Len(call.dataforseo)}
AhrefsReturned == {call.ahrefs.items[i] : i \in 1..Len(call.ahrefs.items)}
UpstreamReturned == DataForSEOReturned \cup AhrefsReturned
ReturnedKeywords == {item.keyword : item \in UpstreamReturned}

\* C1: a bulk call answered by a configured provider returns exactly one
\* record per requested keyword: as many records as keywords, and every
\* keyword as often in the output as in the input batch.
C1_OneRecordPerRequestedKeyword ==
    BulkProviderCall =>
        /\ Len(result) = Len(call.keywords)
        /\ \A k \in Keywords \cup UpstreamKeywords :
              Occurrences(ResultKeywords, k) = Occurrences(call.keywords, k)

\* the provider whose upstream answered the bulk call
PrimaryAnswered ==
    /\ BulkProviderCall
    /\ \/ \E c \in 1..Len(call.dataforseo) : call.dataforseo[c].ok
       \/ call.ahrefs.upstream
Primary == IF call.dataforseo # <<>> THEN "dataforseo" ELSE "ahrefs"

\* C2: when the primary provider answered a bulk call for a subset of the
\* batch, every record of a keyword it returned carries source = that
\* provider and confidence > 0, and every other record is an explicit
\* unavailable record: source "unavailable", confidence 0, all metrics null.
C2_MatchedOrUnavailable ==
    PrimaryAnswered =>
        \A i \in 1..Len(result) :
            LET r == result[i] IN
            IF r.keyword \in ReturnedKeywords
              THEN r.source = Primary /\ r.confidence > 0
              ELSE /\ r.source = "unavailable" /\ r.confidence = 0
                   /\ r.volume = NULL /\ r.difficulty = NULL /\ r.cpc = NULL
                   /\ r.competition = NULL /\ r.trend = NULL

\* C2 witness: a partial answer - the list holds a matched record and an
\* unavailable one.
C2_Witness ==
    /\ PrimaryAnswered
    /\ \E i, j \in 1..Len(result) :
          /\ result[i].source = "dataforseo" /\ result[i].keyword \in ReturnedKeywords
          /\ result[j].source = "unavailable" /\ result[j].keyword \notin ReturnedKeywords

\* C3: with both providers configured (DataForSEO first) and every
\* DataForSEO request of the call failed, the call goes on to Ahrefs, and
\* if Ahrefs answers, every record is tagged "ahrefs".
C3_FallThroughToNextProvider ==
    ( /\ call.op = "bulk"
      /\ ~config.mockMode
      /\ config.preferredProvider = "auto"
      /\ env.dataforseo /\ env.ahrefs
      /\ Len(call.keywords) > 0
      /\ \A c \in 1..Len(call.dataforseo) : ~call.dataforseo[c].ok )
    => /\ call.ahrefs.attempted
       /\ call.ahrefs.upstream => \A i \in 1..Len(result) : result[i].source = "ahrefs"

\* C4: a record tagged with a real provider holds only what the upstream
\* returned for that keyword: its volume is the returned one (null when the
\* upstream gave none), and the metrics the upstream did not return are null.
C4_NoFabricatedValueUnderRealSource ==
    call.op # "none" =>
        \A i \in 1..Len(result) :
            LET r == result[i] IN
            (r.source \in RealSources /\ r.confidence > 0) =>
                /\ \E item \in UpstreamReturned :
                      item.keyword = r.keyword /\ item.volume = r.volume
                /\ r.cpc = NULL
                /\ r.competition = NULL
                /\ r.difficulty = NULL

\* C5: a "mock" record is returned only in mock mode or when no provider
\* client is configured.
C5_MockOnlyOnMockPath ==
    call.op # "none" =>
        \A i \in 1..Len(result) :
            result[i].source = "mock" =>
                config.mockMode \/ (~dataForSEOClient /\ ~ahrefsClient)

-----------------------------------------------------------------------------
(* Part II - properties of the admission layer *)

\* c's request calls the network in this step (a first attempt or a retry)
NetworkInvoked(c) ==
    /\ requests'[c].pc = "network"
    /\ requests[c].pc # "network" \/ requests'[c].attempt > requests[c].attempt

\* c starts makeLLMRequest or scrapeUrl in this step and gets as far as the
\* breaker (a cache hit and a rate-limit rejection of makeLLMRequest end the
\* request before it)
ReachesGate(c) ==
    /\ requests[c].pc = "idle"
    /\ requests'[c].op \in {"llm", "scrape"}
    /\ requests'[c].last \notin {"cached", "RateLimit"}

\* a network call of c fails in this step
NetworkCallFails(c) ==
    /\ requests[c].pc = "network"
    /\ \/ requests'[c].last = "UpstreamError"
       \/ requests'[c].attempt > requests[c].attempt

BreakerRejecting ==
    breaker.state = "open" /\ now - breaker.lastTransitionTime < RecoveryTimeout

\* C6: while the breaker is Open and the recovery timeout has not elapsed, a
\* makeLLMRequest or scrapeUrl request that gets to the breaker ends with
\* CircuitOpen, and no request of these operations calls the network.
C6_OpenBreakerRejects ==
    [][BreakerRejecting =>
         \A c \in Callers :
            /\ ReachesGate(c) => requests'[c] = Done(requests'[c].op, "CircuitOpen")
            /\ requests'[c].op \in {"llm", "scrape"} => ~NetworkInvoked(c)]_vars

C6_Witness ==
    /\ BreakerRejecting
    /\ \E c \in Callers : requests[c] = Done("llm", "CircuitOpen")
    /\ \E c \in Callers : requests[c].pc = "network"

\* C7: when a network call of any operation of the client fails while the
\* breaker is Closed, and with it the failed network calls within the
\* monitoring period number failureThreshold, the breaker is Open afterwards.
C7_FailuresOpenBreaker ==
    [][\A c \in Callers :
          (/\ breaker.state = "closed"
           /\ NetworkCallFails(c)
           /\ Len(Recent(Append(networkFailures, now), now)) >= FailureThreshold)
          => breaker'.state = "open"]_vars

ProbeRequests == {c \in Callers : requests[c].probe}

ProbeIsAlone ==
    /\ Cardinality(ProbeRequests) <= 1
    /\ ProbeRequests # {} <=> (breaker.state = "halfOpen" /\ breaker.probeInFlight)
    /\ breaker.state = "halfOpen" => breaker.probeInFlight

\* C8: while the breaker is HalfOpen exactly one request, the probe, is in
\* flight through it; every other request that gets to the breaker before
\* the probe has settled ends with CircuitOpen and calls no network.
C8_OneProbeWhileHalfOpen ==
    /\ []ProbeIsAlone
    /\ [][breaker.state = "halfOpen" =>
            \A c \in Callers :
               ReachesGate(c) =>
                  /\ requests'[c] = Done(requests'[c].op, "CircuitOpen")
                  /\ ~NetworkInvoked(c)]_vars

C8_Witness ==
    /\ breaker.state = "halfOpen"
    /\ \E c \in Callers, d \in Callers :
          /\ requests[c].probe
          /\ requests[d].last = "CircuitOpen"

\* the probe c settles in this step
ProbeFails(c) ==
    requests[c].probe /\ requests'[c].last \in {"UpstreamError", "TypeError"}
ProbeSucceeds(c) ==
    requests[c].probe /\ requests'[c] # requests[c] /\ ~ProbeFails(c)

\* C9: the breaker changes state only Closed -> Open, Open -> HalfOpen once
\* the recovery timeout has elapsed, HalfOpen -> Closed when the probe
\* succeeds and HalfOpen -> Open when it fails; a probe that settles
\* takes the breaker to Closed on success and to Open, with the recovery
\* timer restarted, on failure.
C9_BreakerTransitions ==
    [][/\ breaker'.state # breaker.state =>
            \/ breaker.state = "closed" /\ breaker'.state = "open"
            \/ /\ breaker.state = "open" /\ breaker'.state = "halfOpen"
               /\ now - breaker.lastTransitionTime >= RecoveryTimeout
            \/ /\ breaker.state = "halfOpen" /\ breaker'.state = "closed"
               /\ \E c \in Callers : ProbeSucceeds(c)
            \/ /\ breaker.state = "halfOpen" /\ breaker'.state = "open"
               /\ \E c \in Callers : ProbeFails(c)
       /\ \A c \in Callers :
            /\ ProbeSucceeds(c) => breaker'.state = "closed"
            /\ ProbeFails(c) =>
                 breaker'.state = "open" /\ breaker'.lastTransitionTime = now]_vars

\* the breaker has been round: opened, half-opened, closed again by its probe
C9_Witness ==
    /\ breaker.state = "closed"
    /\ breaker.lastTransitionTime >= RecoveryTimeout
    /\ \E c \in Callers : requests[c].last = "success"

\* c's request asks the limiter for a token in this step
ConsumeStep(c) ==
    \/ /\ requests[c].pc = "idle"
       /\ requests'[c].op = "llm"
       /\ requests'[c].last # "cached"
    \/ /\ requests[c].pc = "execute"
       /\ requests'[c].pc # "execute"
       /\ requests'[c].last # "TypeError"

\* C10: the bucket holds between 0 and capacity tokens; a consumption of cost
\* 1 succeeds only if the bucket, refilled to the present, holds a token, and
\* takes exactly that token; a rejected one takes nothing; no other step
\* touches the bucket.
C10_TokenBucket ==
    /\ [](0 <= limiter.tokens /\ limiter.tokens <= FullBucket)
    /\ [][LET available == Refill(limiter, now).tokens IN
          /\ \A c \in Callers :
                ConsumeStep(c) =>
                   IF requests'[c].last = "RateLimit"
                     THEN available < TokenUnit /\ limiter'.tokens = available
                     ELSE available >= TokenUnit
                          /\ limiter'.tokens = available - TokenUnit
          /\ (\A c \in Callers : ~ConsumeStep(c)) => limiter' = limiter]_vars

C10_Witness ==
    /\ limiter.tokens < TokenUnit
    /\ \E c \in Callers, d \in Callers :
          /\ requests[c].last = "RateLimit"
          /\ requests[d].pc = "network"

\* getRemainingTokens(): the tokens a consumption would find now
getRemainingTokens == Refill(limiter, now).tokens

\* the time since the limiter was last asked for a token
IdleTime == now - limiter.lastRefillTime

Admitted ==
    metrics.requests + Cardinality({c \in Callers : requests[c].pc = "network"})

\* C12: however the tryConsume calls of concurrent callers interleave, the
\* cost admitted plus the tokens left never exceeds the initial bucket plus
\* what was refilled since, and the bucket never goes negative.
C12_NoTokenGrantedTwice ==
    client = "gemini" =>
       /\ limiter.tokens >= 0
       /\ Admitted * TokenUnit + limiter.tokens
             <= FullBucket + limiter.lastRefillTime * RefillRate

\* two callers were admitted side by side and a third request was refused
C12_Witness ==
    /\ \A c \in Callers : requests[c].pc = "network"
    /\ limiter.tokens < TokenUnit
    /\ metrics.rateLimitHits > 0

-----------------------------------------------------------------------------
(* Part II - properties of the request lifecycle *)

\* c enters makeLLMRequest in this step
StartsRequest(c) == requests[c].pc = "idle" /\ requests'[c].op = "llm"

\* the entries of the key that are still valid at time t
Unexpired(store, key, t) ==
    {i \in 1 .. Len(store) :
        store[i].key = key /\ t < store[i].timestamp + store[i].ttl}

\* C13: a request whose cache key holds an unexpired entry returns that
\* entry's data tagged as cached, makes no network call, and leaves the
\* limiter, the breaker, the metrics (totalCost and every counter) and the
\* cache as they were.
C13_CacheHitTouchesNothing ==
    [][\A c \in Callers :
          (StartsRequest(c) /\ Unexpired(cache, calls'[c].key, now) # {}) =>
             /\ requests'[c] = Done("llm", "cached")
             /\ calls'[c].pc = "returned"
             /\ \E i \in Unexpired(cache, calls'[c].key, now) :
                   calls'[c].data = cache[i].data
             /\ limiter' = limiter
             /\ breaker' = breaker
             /\ metrics' = metrics
             /\ cache' = cache]_vars

\* a call was answered from the cache after the cache had been filled
C13_Witness ==
    /\ \E c \in Callers : requests[c].last = "cached" /\ calls[c].pc = "returned"
    /\ metrics.successes > 0
    /\ metrics.totalCost > 0

\* C14: a request the limiter rejects fails with a RateLimit error that
\* carries a retry-after estimate (after which a token is there); the breaker
\* is not consulted, no network call is made and the cache is not written.
C14_RateLimitRejection ==
    [][\A c \in Callers :
          (/\ StartsRequest(c)
           /\ Unexpired(cache, calls'[c].key, now) = {}
           /\ getRemainingTokens < TokenUnit) =>
             /\ requests'[c] = Done("llm", "RateLimit")
             /\ calls'[c].error = "RateLimit"
             /\ calls'[c].retryAfter >= 1
             /\ Refill(limiter', now + calls'[c].retryAfter).tokens >= TokenUnit
             /\ calls'[c].steps = <<"cache", "limiter">>
             /\ breaker' = breaker
             /\ cache' = cache]_vars

\* a request was refused by the limiter while the breaker was open
C14_Witness ==
    /\ \E c \in Callers : requests[c].last = "RateLimit" /\ calls[c].retryAfter >= 1
    /\ breaker.state = "open"

\* the steps of the shared lifecycle up to the network call, in order
LifecycleOrder == <<"cache", "limiter", "breaker", "network">>

Steps(c) == {calls[c].steps[i] : i \in 1 .. Len(calls[c].steps)}

\* C15: a makeLLMRequest or scrapeUrl request that reaches the network has
\* gone through cache lookup, rate-limiter admission and circuit-breaker gate
\* in this order, and what follows the network call is the cache write and
\* the metrics update (the metrics update alone after a failure).
C15_SharedLifecycleOrder ==
    \A c \in Callers :
       (/\ calls[c].operation \in Operations \cup {"scrapeUrl"}
        /\ "network" \in Steps(c)) =>
          calls[c].steps \in {LifecycleOrder,
                              LifecycleOrder \o <<"metrics">>,
                              LifecycleOrder \o <<"cacheWrite", "metrics">>}

\* c's request writes its response to the cache in this step
WritesCache(c) == requests[c].pc = "network" /\ requests'[c].last = "success"

\* C16: a read right after a write returns the written value; a key whose
\* entry has outlived its ttl (now >= timestamp + ttl) is a miss, and a
\* request for it is not answered from the cache; a key that was never
\* written has no entry and is a miss.
C16_CacheReadWrite ==
    /\ [](\A k \in CacheKeys :
             /\ Unexpired(cache, k, now) = {} => getLLMCache(cache, k, now) = NULL
             /\ ~CacheHas(cache, k) => getLLMCache(cache, k, now) = NULL)
    /\ [][\A c \in Callers :
             /\ WritesCache(c) =>
                   getLLMCache(cache', calls[c].key, now) = calls'[c].data
             /\ (StartsRequest(c) /\ Unexpired(cache, calls'[c].key, now) = {}) =>
                   requests'[c].last # "cached"
             /\ \A k \in CacheKeys :
                   (CacheHas(cache', k) /\ ~CacheHas(cache, k)) =>
                      \E d \in Callers : WritesCache(d) /\ calls[d].key = k]_vars

\* a request went to the network although its key has an entry: the entry
\* had expired
C16_Witness ==
    \E c \in Callers :
       /\ requests[c].pc = "network"
       /\ CacheHas(cache, calls[c].key)
       /\ now >= CacheGet(cache, calls[c].key).timestamp + CacheTtl

AttemptSucceeds(c) ==
    calls[c].pc \in {"idle", "retry", "attempting"}
       /\ requests'[c] # requests[c] /\ requests'[c].last \in {"success", "cached"}
AttemptFails(c) ==
    calls[c].pc \in {"idle", "retry", "attempting"}
       /\ requests'[c] # requests[c]
       /\ requests'[c].last \in {"RateLimit", "CircuitOpen", "UpstreamError"}

\* C18: withRetry invokes the operation at most maxAttempts times
\* (expandToDream100 makes at most 2 LLM requests, scrapeUrl at most 3
\* network calls), every attempt of makeLLMRequest starts again at the cache
\* lookup, and the call ends with the first success or, when the attempts are
\* used up, with the error of the last one.
C18_RetryBound ==
    /\ [](\A c \in Callers :
             /\ calls[c].attempt <= calls[c].maxAttempts
             /\ requests[c].attempt <= ScrapeMaxAttempts
             /\ calls[c].pc \in {"backoff", "retry"} =>
                   calls[c].attempt < calls[c].maxAttempts
             /\ calls[c].operation = "expandToDream100" =>
                   calls[c].maxAttempts = ExpandMaxAttempts)
    /\ [][client = "gemini" =>
            \A c \in Callers :
               /\ StartsRequest(c) =>
                     /\ calls'[c].attempt =
                           (IF calls[c].pc = "retry" THEN calls[c].attempt ELSE 0) + 1
                     /\ Head(calls'[c].steps) = "cache"
               /\ AttemptSucceeds(c) => calls'[c].pc = "returned"
               /\ (AttemptFails(c) /\ calls'[c].attempt = calls'[c].maxAttempts) =>
                     calls'[c].pc = "failed"]_vars

\* expandToDream100 has used both attempts and failed with the last error
C18_Witness ==
    \E c \in Callers :
       /\ calls[c].operation = "expandToDream100"
       /\ calls[c].pc = "failed"
       /\ calls[c].attempt = ExpandMaxAttempts
       /\ calls[c].error = "Upstream"

\* C19: an operation that fails with an auth error is not invoked again: the
\* call has failed with this error and the onRetry observer was not notified
\* of it (never, when it was the first attempt).
C19_FatalErrorNotRetried ==
    \A c \in Callers :
       (calls[c].operation \in Operations /\ calls[c].error = "Auth") =>
          /\ calls[c].pc = "failed"
          /\ calls[c].retries = calls[c].attempt - 1

C19_Witness ==
    \E c \in Callers :
       /\ calls[c].operation = "expandToDream100"
       /\ calls[c].error = "Auth"
       /\ calls[c].attempt = 1
       /\ calls[c].retries = 0

\* C20: an attempt the open breaker rejects ends the call with a CircuitOpen
\* error, which is neither the RateLimit nor an upstream error; no further
\* attempt of the call is made.
C20_CircuitOpenNotRetried ==
    /\ [](\A c \in Callers :
             (calls[c].operation \in Operations /\ requests[c].last = "CircuitOpen") =>
                /\ calls[c].error = "CircuitOpen"
                /\ calls[c].pc = "failed"
                /\ calls[c].retries = calls[c].attempt - 1)
    /\ [][\A c \in Callers :
             (calls[c].operation \in Operations /\ calls[c].error = "CircuitOpen") =>
                ~StartsRequest(c) \/ calls'[c].attempt = 1]_vars

\* expandToDream100 met the open breaker on its first attempt
C20_Witness ==
    \E c \in Callers :
       /\ calls[c].operation = "expandToDream100"
       /\ calls[c].error = "CircuitOpen"
       /\ calls[c].attempt = 1
       /\ calls[c].attempt < calls[c].maxAttempts

-----------------------------------------------------------------------------
(* Part III - cache keys                                                   *)
(*                                                                         *)
(* A string is the sequence of its UTF-16 code units; a keyword list is a  *)
(* sequence of strings. Every cache key starts with a literal that names   *)
(* its operation, so a key is kept as that operation and the text that     *)
(* follows the literal.                                                    *)

MaxKeywords == 3    \* longest keyword list a key is computed for

Comma == 44
Colon == 58

\* "a", "b" and "a,b"
Words == {<<97>>, <<98>>, <<97, Comma, 98>>}
\* the other parameters of a request as they are written into the key
\* ("us" and "de"; "2840:en"; "100:mixed"; "{}"): here "us" and "de"
Locales == {<<117, 115>>, <<100, 101>>}

KeywordLists == UNION {[1 .. n -> Words] : n \in 1 .. MaxKeywords}

\* a < b as Array.prototype.sortWords() without a comparator orders strings
RECURSIVE Before(_, _)
Before(a, b) ==
    IF b = <<>> THEN FALSE
    ELSE IF a = <<>> THEN TRUE
    ELSE IF Head(a) # Head(b) THEN Head(a) < Head(b)
    ELSE Before(Tail(a), Tail(b))

RECURSIVE InsertWord(_, _)
InsertWord(sorted, word) ==
    IF sorted = <<>> THEN <<word>>
    ELSE IF Before(word, Head(sorted)) THEN <<word>> \o sorted
    ELSE <<Head(sorted)>> \o InsertWord(Tail(sorted), word)

RECURSIVE sortWords(_)
sortWords(list) == IF list = <<>> THEN <<>> ELSE InsertWord(sortWords(SubSeq(list, 1, Len(list) - 1)), list[Len(list)])

RECURSIVE join(_, _)
join(list, separator) ==
    IF list = <<>> THEN <<>>
    ELSE IF Len(list) = 1 THEN list[1]
    ELSE list[1] \o <<separator>> \o join(Tail(list), separator)

slice(list, from, to) == SubSeq(list, from + 1, Min(to, Len(list)))
substring(string, from, to) == SubSeq(string, from + 1, Min(to, Len(string)))

BulkKeyKeywords == 3    \* batch.slice(0, 3)
BulkKeyLength == 50     \* .substring(0, 50)

CachingOperations ==
    {"expandToDream100", "classifyIntent", "getKeywordMetrics", "getKeywordData",
     "getKeywordDifficulty"}

\* Each operation's cache key, and the caller's keyword array as the
\* operation leaves it (sort() sorts in place).
expandToDream100Key(args) ==
    [key |-> [operation |-> "expansion",
              text |-> args.locale \o <<Colon>> \o join(sortWords(args.keywords), Comma)],
     keywords |-> sortWords(args.keywords)]

classifyIntentKey(args) ==
    [key |-> [operation |-> "intent",
              text |-> join(sortWords(args.keywords), Comma) \o <<Colon>> \o args.locale],
     keywords |-> sortWords(args.keywords)]

getKeywordMetricsKey(args) ==
    [key |-> [operation |-> "kw:metrics",
              text |-> args.locale \o <<Colon>> \o join(sortWords(args.keywords), Comma)],
     keywords |-> sortWords(args.keywords)]

getKeywordDataKey(args) ==
    [key |-> [operation |-> "dfs:labs:bulk",
              text |-> args.locale \o <<Colon>>
                       \o substring(join(slice(args.keywords, 0, BulkKeyKeywords), Comma),
                                    0, BulkKeyLength)],
     keywords |-> args.keywords]

getKeywordDifficultyKey(args) ==
    [key |-> [operation |-> "dfs:difficulty",
              text |-> args.locale \o <<Colon>> \o join(sortWords(args.keywords), Comma)],
     keywords |-> sortWords(args.keywords)]

CacheKeyOf(operation, args) ==
    CASE operation = "expandToDream100" -> expandToDream100Key(args)
      [] operation = "classifyIntent" -> classifyIntentKey(args)
      [] operation = "getKeywordMetrics" -> getKeywordMetricsKey(args)
      [] operation = "getKeywordData" -> getKeywordDataKey(args)
      [] operation = "getKeywordDifficulty" -> getKeywordDifficultyKey(args)

Reorderings(list) ==
    {[i \in 1 .. Len(list) |-> list[p[i]]] : p \in Permutations(1 .. Len(list))}

\* The next of the two requests reaches the line that builds its cache key.
BuildCacheKey ==
    /\ Len(cacheKey) < Len(submitted)
    /\ LET i == Len(cacheKey) + 1
           built == CacheKeyOf(submitted[i].operation, submitted[i])
       IN /\ cacheKey' = Append(cacheKey, built.key)
          /\ submitted' = [submitted EXCEPT ![i].keywords = built.keywords]
    /\ UNCHANGED <<cascadeVars, gatewayVars, extractorVars, fetchVars, isolationVars, outerVars>>

\* Two requests for one operation with the same locale and the same
\* keywords, the second in any order.
InitFingerprint ==
    /\ \E operation \in CachingOperations, locale \in Locales, first \in KeywordLists :
         \E second \in Reorderings(first) :
            submitted = <<[operation |-> operation, locale |-> locale, keywords |-> first],
                          [operation |-> operation, locale |-> locale, keywords |-> second]>>
    /\ cacheKey = <<>>
    /\ client = "gemini"
    /\ labelCallThrows = FALSE
    /\ workload = [callers |-> {}, keys |-> {}, operations |-> {}]
    /\ now = 0
    /\ breaker = Closed(0)
    /\ limiter = [tokens |-> FullBucket, lastRefillTime |-> 0]
    /\ cache = <<>>
    /\ requests = <<>>
    /\ networkFailures = <<>>
    /\ metrics = NoMetrics
    /\ calls = <<>>
    /\ env = [dataforseo |-> FALSE, ahrefs |-> FALSE]
    /\ config = [mockMode |-> FALSE, preferredProvider |-> "auto"]
    /\ constructed = FALSE
    /\ dataForSEOClient = FALSE
    /\ ahrefsClient = FALSE
    /\ activeProvider = "mock"
    /\ keywordsExplorerAvailable = "null"
    /\ call = NoCall
    /\ result = <<>>
    /\ response = <<>>
    /\ parsedData = <<>>
    /\ extraction = <<>>
    /\ expansion = <<>>
    /\ fetchCall = <<>>
    /\ upstream = <<>>
    /\ settled = <<>>
    /\ delivered = <<>>
    /\ owns = <<>>
    /\ instances = <<>>
    /\ handled = <<>>
    /\ scrapeRun = <<>>
    /\ creditsUsed = <<>>
    /\ explorerCalls = <<>>

NextFingerprint == BuildCacheKey

SpecFingerprint == InitFingerprint /\ [][NextFingerprint]_vars

\* C21: two requests for one caching operation with the same locale and the
\* same keywords in a different order get the identical cache key.
C21_FingerprintOrderInvariant ==
    Len(cacheKey) = 2 => cacheKey[1] = cacheKey[2]

-----------------------------------------------------------------------------
(* Part III - the text of a model answer and JSON.parse                    *)
(*                                                                         *)
(* A text is the sequence of its characters, with a run of letters written *)
(* as one symbol ("keyword", "Here"), and so is the run of three backticks.*)
(* The characters that the code tells apart stand alone.                   *)

MaxElements == 2    \* longest array a model answer holds

Quote == "\""
Backslash == "\\"
Space == " "
Fence == "<fence>"     \* the run of three backticks

\* JSON values: strings, arrays, and objects as their members in source order
JsonString(chars) == [type |-> "string", value |-> chars]
JsonArray(items) == [type |-> "array", value |-> items]
JsonObject(members) == [type |-> "object", value |-> members]
Member(key, value) == [key |-> key, value |-> value]

\* What the model may put into its array: {"keyword":"a"}, {"keyword":"b]"},
\* {"keyword":"c\"["}, {"keyword":""}, {"intent":"a"} and
\* {"keyword":"d","meta":{"k":"e"}}
ModelObjects ==
    {JsonObject(<<Member(<<"keyword">>, JsonString(<<"a">>))>>),
     JsonObject(<<Member(<<"keyword">>, JsonString(<<"b", "]">>))>>),
     JsonObject(<<Member(<<"keyword">>, JsonString(<<"c", Quote, "[">>))>>),
     JsonObject(<<Member(<<"keyword">>, JsonString(<<>>))>>),
     JsonObject(<<Member(<<"intent">>, JsonString(<<"a">>))>>),
     JsonObject(<<Member(<<"keyword">>, JsonString(<<"d">>)),
                  Member(<<"meta">>, JsonObject(<<Member(<<"k">>, JsonString(<<"e">>))>>))>>)}

\* JSON text of a value, as a model writes it (a space after each comma of
\* an array)
RECURSIVE escape(_)
escape(chars) ==
    IF chars = <<>> THEN <<>>
    ELSE (IF Head(chars) \in {Quote, Backslash} THEN <<Backslash, Head(chars)>>
          ELSE <<Head(chars)>>) \o escape(Tail(chars))

RECURSIVE stringify(_), stringifyItems(_), stringifyMembers(_)
stringify(json) ==
    CASE json.type = "string" -> <<Quote>> \o escape(json.value) \o <<Quote>>
      [] json.type = "array" -> <<"[">> \o stringifyItems(json.value) \o <<"]">>
      [] json.type = "object" -> <<"{">> \o stringifyMembers(json.value) \o <<"}">>
stringifyItems(items) ==
    IF items = <<>> THEN <<>>
    ELSE IF Len(items) = 1 THEN stringify(items[1])
    ELSE stringify(items[1]) \o <<",", Space>> \o stringifyItems(Tail(items))
stringifyMembers(members) ==
    IF members = <<>> THEN <<>>
    ELSE LET first == <<Quote>> \o escape(members[1].key) \o <<Quote, ":">>
                      \o stringify(members[1].value)
         IN IF Len(members) = 1 THEN first
            ELSE first \o <<",">> \o stringifyMembers(Tail(members))

\* JSON.parse, for the JSON of strings, arrays and objects: the parsed value,
\* or a SyntaxError. A parser result is the value and the position after it.
SyntaxError == [ok |-> FALSE, value |-> <<>>, next |-> 0]
Parsed(value, next) == [ok |-> TRUE, value |-> value, next |-> next]

RECURSIVE SkipSpace(_, _)
SkipSpace(s, i) == IF i <= Len(s) /\ s[i] = Space THEN SkipSpace(s, i + 1) ELSE i

RECURSIVE ParseChars(_, _, _)
ParseChars(s, i, chars) ==
    IF i > Len(s) THEN SyntaxError
    ELSE IF s[i] = Quote THEN Parsed(chars, i + 1)
    ELSE IF s[i] = Backslash
         THEN IF i + 1 <= Len(s) /\ s[i + 1] \in {Quote, Backslash}
              THEN ParseChars(s, i + 2, Append(chars, s[i + 1]))
              ELSE SyntaxError
    ELSE ParseChars(s, i + 1, Append(chars, s[i]))

RECURSIVE ParseValue(_, _), ParseElements(_, _, _), ParseMembers(_, _, _)
ParseValue(s, from) ==
    LET i == SkipSpace(s, from)
        string == ParseChars(s, i + 1, <<>>)
        j == SkipSpace(s, i + 1)
    IN IF i > Len(s) THEN SyntaxError
       ELSE IF s[i] = Quote
            THEN IF string.ok THEN Parsed(JsonString(string.value), string.next)
                 ELSE SyntaxError
       ELSE IF s[i] = "["
            THEN IF j <= Len(s) /\ s[j] = "]" THEN Parsed(JsonArray(<<>>), j + 1)
                 ELSE ParseElements(s, j, <<>>)
       ELSE IF s[i] = "{"
            THEN IF j <= Len(s) /\ s[j] = "}" THEN Parsed(JsonObject(<<>>), j + 1)
                 ELSE ParseMembers(s, j, <<>>)
       ELSE SyntaxError
ParseElements(s, from, items) ==
    LET item == ParseValue(s, from)
        j == SkipSpace(s, item.next)
    IN IF ~item.ok THEN SyntaxError
       ELSE IF j > Len(s) THEN SyntaxError
       ELSE IF s[j] = "," THEN ParseElements(s, j + 1, Append(items, item.value))
       ELSE IF s[j] = "]" THEN Parsed(JsonArray(Append(items, item.value)), j + 1)
       ELSE SyntaxError
ParseMembers(s, from, members) ==
    LET i == SkipSpace(s, from)
        key == ParseChars(s, i + 1, <<>>)
        colon == SkipSpace(s, key.next)
        value == ParseValue(s, colon + 1)
        j == SkipSpace(s, value.next)
        all == Append(members, Member(key.value, value.value))
    IN IF i > Len(s) \/ s[i] # Quote THEN SyntaxError
       ELSE IF ~key.ok THEN SyntaxError
       ELSE IF colon > Len(s) \/ s[colon] # ":" THEN SyntaxError
       ELSE IF ~value.ok THEN SyntaxError
       ELSE IF j > Len(s) THEN SyntaxError
       ELSE IF s[j] = "," THEN ParseMembers(s, j + 1, all)
       ELSE IF s[j] = "}" THEN Parsed(JsonObject(all), j + 1)
       ELSE SyntaxError

JSONParse(s) ==
    LET parsed == ParseValue(s, 1)
    IN IF parsed.ok /\ SkipSpace(s, parsed.next) > Len(s) THEN parsed ELSE SyntaxError

-----------------------------------------------------------------------------
(* Part III - GeminiClient.makeLLMRequest: from response.text() to         *)
(* parsedData                                                              *)

\* String.prototype.trim
RECURSIVE trimEnd(_)
trimEnd(s) == IF s # <<>> /\ s[Len(s)] = Space THEN trimEnd(SubSeq(s, 1, Len(s) - 1)) ELSE s
trim(s) == trimEnd(SubSeq(s, SkipSpace(s, 1), Len(s)))

\* text.match(/<fence>(?:json)?\s*([\s\S]*)/): what follows the first fence,
\* its "json" and the white space after it
HasFence(text) == \E i \in 1 .. Len(text) : text[i] = Fence
codeBlockMatch(text) ==
    LET fence == CHOOSE i \in 1 .. Len(text) :
                    text[i] = Fence /\ \A j \in 1 .. i - 1 : text[j] # Fence
        afterJson == IF fence + 1 <= Len(text) /\ text[fence + 1] = "json"
                     THEN fence + 2 ELSE fence + 1
    IN SubSeq(text, SkipSpace(text, afterJson), Len(text))

\* .replace(/<fence>\s*$/, ''): a fence that only white space follows goes,
\* with that white space
dropClosingFence(s) ==
    LET t == trimEnd(s)
    IN IF t # <<>> /\ t[Len(t)] = Fence THEN SubSeq(t, 1, Len(t) - 1) ELSE s

\* findBalancedJSON(str, startChar, endChar, allowIncomplete); startIdx 0 is
\* the code's -1. BalancedTurn is one turn of the for loop on the loop's
\* variables, BalancedScan the turns for str[lo .. hi], one half of the range
\* after the other; once the code has returned, a turn changes nothing.
ScanStart == [found |-> FALSE, depth |-> 0, startIdx |-> 0, end |-> 0]
BalancedTurn(str, startChar, endChar, s, i) ==
    IF s.found THEN s
    ELSE IF str[i] = startChar
         THEN [s EXCEPT !.depth = @ + 1, !.startIdx = IF s.depth = 0 THEN i ELSE @]
    ELSE IF str[i] = endChar
         THEN IF s.depth - 1 = 0 /\ s.startIdx # 0
              THEN [found |-> TRUE, depth |-> 0, startIdx |-> s.startIdx, end |-> i]
              ELSE [s EXCEPT !.depth = @ - 1]
    ELSE s

RECURSIVE BalancedScan(_, _, _, _, _, _)
BalancedScan(str, startChar, endChar, lo, hi, from) ==
    IF lo > hi THEN from
    ELSE IF lo = hi THEN BalancedTurn(str, startChar, endChar, from, lo)
    ELSE CHOOSE after \in {BalancedScan(str, startChar, endChar, (lo + hi) \div 2 + 1, hi, half) :
                              half \in {BalancedScan(str, startChar, endChar, lo, (lo + hi) \div 2, from)}} : TRUE

NoJSON == [found |-> FALSE, json |-> <<>>]
findBalancedJSON(str, startChar, endChar, allowIncomplete) ==
    LET scan == BalancedScan(str, startChar, endChar, 1, Len(str), ScanStart)
    IN IF scan.found THEN [found |-> TRUE, json |-> SubSeq(str, scan.startIdx, scan.end)]
       ELSE IF allowIncomplete /\ scan.startIdx # 0 /\ scan.depth > 0
            THEN [found |-> TRUE,
                  json |-> SubSeq(str, scan.startIdx, Len(str))
                           \o [k \in 1 .. scan.depth |-> endChar]]
       ELSE NoJSON

\* The loop that collects the complete objects of an array that did not
\* parse. ObjectTurn is one turn of the loop on its variables, objectMatches
\* the turns for str[lo .. hi], one half of the range after the other.
NoObjects ==
    [matches |-> <<>>, currentObject |-> <<>>, braceDepth |-> 0,
     inString |-> FALSE, escapeNext |-> FALSE]
ObjectTurn(str, s, i) ==
    LET char == str[i]
        added == Append(s.currentObject, char)
    IN IF s.escapeNext THEN [s EXCEPT !.currentObject = added, !.escapeNext = FALSE]
       ELSE IF char = Backslash THEN [s EXCEPT !.currentObject = added, !.escapeNext = TRUE]
       ELSE IF char = Quote THEN [s EXCEPT !.currentObject = added, !.inString = ~@]
       ELSE IF s.inString THEN [s EXCEPT !.currentObject = added]
       ELSE IF char = "{"
            THEN [s EXCEPT !.currentObject = IF s.braceDepth = 0 THEN <<"{">> ELSE added,
                           !.braceDepth = @ + 1]
       ELSE IF char = "}"
            THEN IF s.braceDepth - 1 = 0
                 THEN [s EXCEPT !.matches = Append(@, added), !.currentObject = <<>>,
                                !.braceDepth = 0]
                 ELSE [s EXCEPT !.currentObject = added, !.braceDepth = @ - 1]
       ELSE IF s.braceDepth > 0 THEN [s EXCEPT !.currentObject = added]
       ELSE s

RECURSIVE objectMatches(_, _, _, _)
objectMatches(str, lo, hi, from) ==
    IF lo > hi THEN from
    ELSE IF lo = hi THEN ObjectTurn(str, from, lo)
    ELSE CHOOSE after \in {objectMatches(str, (lo + hi) \div 2 + 1, hi, half) :
                              half \in {objectMatches(str, lo, (lo + hi) \div 2, from)}} : TRUE

\* obj.name, and whether a value counts as true in a condition
HasProperty(json, name) ==
    json.type = "object" /\ \E i \in 1 .. Len(json.value) : json.value[i].key = name
Property(json, name) ==
    json.value[CHOOSE i \in 1 .. Len(json.value) :
                  /\ json.value[i].key = name
                  /\ \A j \in i + 1 .. Len(json.value) : json.value[j].key # name].value
Truthy(json, name) ==
    HasProperty(json, name)
        /\ (Property(json, name).type = "string" => Property(json, name).value # <<>>)

\* .map(JSON.parse or null).filter(obj => obj !== null && obj.keyword)
completeObjects(matches) ==
    LET Kept(match) == JSONParse(match).ok /\ Truthy(JSONParse(match).value, <<"keyword">>)
        kept == SelectSeq(matches, Kept)
    IN [i \in 1 .. Len(kept) |-> JSONParse(kept[i]).value]

\* The parse of lines 693 to 853: parsedData, the path that produced it and
\* what the first bracket scan returned. The text itself is the last resort.
parseResponse(text) ==
    LET jsonText == IF HasFence(text) THEN trim(dropClosingFence(codeBlockMatch(text)))
                    ELSE trim(text)
        direct == JSONParse(jsonText)
        complete == findBalancedJSON(text, "[", "]", FALSE)
        jsonArray == IF complete.found THEN complete
                     ELSE findBalancedJSON(text, "[", "]", TRUE)
        array == JSONParse(jsonArray.json)
        objects == completeObjects(objectMatches(jsonArray.json, 1, Len(jsonArray.json), NoObjects).matches)
        jsonObject == findBalancedJSON(text, "{", "}", FALSE)
        object == JSONParse(jsonObject.json)
        asText == JsonString(text)
    IN IF direct.ok
       THEN [parsedData |-> direct.value, path |-> "direct", scan |-> NoJSON]
       ELSE IF jsonArray.found
       THEN IF array.ok
            THEN [parsedData |-> array.value, path |-> "array", scan |-> complete]
            ELSE IF objects # <<>>
            THEN [parsedData |-> JsonArray(objects), path |-> "objects", scan |-> complete]
            ELSE [parsedData |-> asText, path |-> "text", scan |-> complete]
       ELSE IF jsonObject.found /\ object.ok
       THEN [parsedData |-> object.value, path |-> "object", scan |-> complete]
       ELSE [parsedData |-> asText, path |-> "text", scan |-> complete]

-----------------------------------------------------------------------------
(* Part III - GeminiLLMProviderAdapter.expandKeywords: from response.data  *)
(* to the keyword records                                                  *)

\* The keywords read out of a string answer (lines 250 to 286): a thrown
\* SyntaxError leaves none
keywordsOfString(data) ==
    LET jsonArray == findBalancedJSON(data, "[", "]", FALSE)
        jsonObject == findBalancedJSON(data, "{", "}", FALSE)
        parsed == JSONParse(IF jsonArray.found THEN jsonArray.json ELSE jsonObject.json)
    IN IF jsonArray.found
       THEN IF parsed.ok THEN parsed.value.value ELSE <<>>
       ELSE IF jsonObject.found /\ parsed.ok /\ Truthy(parsed.value, <<"keywords">>)
                 /\ Property(parsed.value, <<"keywords">>).type = "array"
       THEN Property(parsed.value, <<"keywords">>).value
       ELSE <<>>

\* k.keyword || k.keyword_name || ''
keywordOf(k) ==
    IF Truthy(k, <<"keyword">>) THEN Property(k, <<"keyword">>).value
    ELSE IF Truthy(k, <<"keyword_name">>) THEN Property(k, <<"keyword_name">>).value
    ELSE <<>>

\* data.keywords of expandKeywords
expandKeywords(data) ==
    LET keywords ==
            IF data.type = "array" THEN data.value
            ELSE IF data.type = "object" /\ Truthy(data, <<"keywords">>)
                      /\ Property(data, <<"keywords">>).type = "array"
            THEN Property(data, <<"keywords">>).value
            ELSE IF data.type = "string" THEN keywordsOfString(data.value)
            ELSE <<>>
    IN [i \in 1 .. Len(keywords) |-> [keyword |-> keywordOf(keywords[i])]]

-----------------------------------------------------------------------------
(* Part III - specification of the extraction *)

\* What the model wrote around its array
Befores == {<<>>, <<"Here", Space>>, <<"see", "[", "x", "]", Space>>, <<"]", Space>>}
Afters == {<<>>, <<Space, "Done">>, <<Space, "[", "x", "]">>}
ModelArrays == UNION {[1 .. n -> ModelObjects] : n \in 0 .. MaxElements}

OpeningFence == <<Fence, "json", Space>>
ClosingFence == <<Space, Fence>>

\* response.text() of an answer: the whole array with prose around it, in a
\* json fence or bare; an array that the token limit cut after `cut`
\* characters; or prose alone
TextOf(kind, elements, before, fenced, after, cut) ==
    LET body == stringify(JsonArray(elements))
    IN CASE kind = "complete" ->
                before \o (IF fenced THEN OpeningFence ELSE <<>>) \o body
                       \o (IF fenced THEN ClosingFence ELSE <<>>) \o after
         [] kind = "truncated" ->
                before \o (IF fenced THEN OpeningFence ELSE <<>>) \o SubSeq(body, 1, cut)
         [] kind = "prose" -> before \o after

Answer(kind, elements, before, fenced, after, cut) ==
    [kind |-> kind, elements |-> elements, before |-> before, fenced |-> fenced,
     after |-> after, cut |-> cut,
     text |-> TextOf(kind, elements, before, fenced, after, cut)]

NotParsed == [type |-> "none", value |-> <<>>]
NotExtracted == [path |-> "none", scan |-> NoJSON, outcome |-> "pending"]
ExpansionKey == 1

\* makeLLMRequest from the answer on (lines 693 to 905): the parse, the
\* cache write and the metrics of a successful request
GeminiParseResponse ==
    /\ extraction.path = "none"
    /\ LET parse == parseResponse(response.text)
       IN /\ parsedData' = parse.parsedData
          /\ extraction' = [path |-> parse.path, scan |-> parse.scan, outcome |-> "success"]
          /\ cache' = setLLMCache(cache, ExpansionKey, parse.parsedData, now)
          /\ metrics' = updateLLMMetrics(metrics, TRUE, calculateCost)
    /\ UNCHANGED <<response, expansion, fingerprintVars, fetchVars, isolationVars,
                   cascadeVars, client, labelCallThrows, now, breaker, limiter, requests,
                   networkFailures, calls, workload, outerVars>>

\* The adapter maps what makeLLMRequest returned
AdapterExpandKeywords ==
    /\ extraction.path # "none"
    /\ expansion = <<>>
    /\ expansion' = <<expandKeywords(parsedData)>>
    /\ UNCHANGED <<response, parsedData, extraction, fingerprintVars, fetchVars,
                   isolationVars, cascadeVars, gatewayVars, outerVars>>

InitExtractor ==
    /\ \E elements \in ModelArrays, fenced \in BOOLEAN :
          \/ \E before \in Befores, after \in Afters :
                \/ response = Answer("complete", elements, before, fenced, after, 0)
                \/ /\ elements = <<>>
                   /\ ~fenced
                   /\ response = Answer("prose", <<>>, before, FALSE, after, 0)
          \/ /\ elements # <<>>
             /\ \E cut \in 1 .. Len(stringify(JsonArray(elements))) - 1 :
                   response = Answer("truncated", elements, <<>>, fenced, <<>>, cut)
    /\ parsedData = NotParsed
    /\ extraction = NotExtracted
    /\ expansion = <<>>
    /\ submitted = <<>>
    /\ cacheKey = <<>>
    /\ client = "gemini"
    /\ labelCallThrows = FALSE
    /\ workload = [callers |-> {}, keys |-> {}, operations |-> {}]
    /\ now = 0
    /\ breaker = Closed(0)
    /\ limiter = [tokens |-> FullBucket, lastRefillTime |-> 0]
    /\ cache = <<>>
    /\ requests = <<>>
    /\ networkFailures = <<>>
    /\ metrics = NoMetrics
    /\ calls = <<>>
    /\ env = [dataforseo |-> FALSE, ahrefs |-> FALSE]
    /\ config = [mockMode |-> FALSE, preferredProvider |-> "auto"]
    /\ constructed = FALSE
    /\ dataForSEOClient = FALSE
    /\ ahrefsClient = FALSE
    /\ activeProvider = "mock"
    /\ keywordsExplorerAvailable = "null"
    /\ call = NoCall
    /\ result = <<>>
    /\ fetchCall = <<>>
    /\ upstream = <<>>
    /\ settled = <<>>
    /\ delivered = <<>>
    /\ owns = <<>>
    /\ instances = <<>>
    /\ handled = <<>>
    /\ scrapeRun = <<>>
    /\ creditsUsed = <<>>
    /\ explorerCalls = <<>>

NextExtractor == GeminiParseResponse \/ AdapterExpandKeywords

SpecExtractor == InitExtractor /\ [][NextExtractor]_vars

\* C22: an array in a json fence, with prose before the fence and after it
\* (prose that may hold brackets), is extracted to exactly that array.
C22_FencedArrayExtracted ==
    (extraction.path # "none" /\ response.kind = "complete" /\ response.fenced)
        => parsedData = JsonArray(response.elements)

\* The position of the last character of the array's first n elements in its
\* JSON text, and the number of elements that are complete before the cut
EndOfElement(elements, n) == 1 + Len(stringifyItems(SubSeq(elements, 1, n)))
CompleteElements(elements, cut) ==
    CHOOSE n \in 0 .. Len(elements) :
        /\ n > 0 => EndOfElement(elements, n) <= cut
        /\ n < Len(elements) => cut < EndOfElement(elements, n + 1)
\* The cut falls inside an element: after its opening brace
CutInsideElement(elements, cut) ==
    LET n == CompleteElements(elements, cut)
    IN /\ n < Len(elements)
       /\ cut >= EndOfElement(elements, n) + (IF n = 0 THEN 1 ELSE 3)
HasNonEmptyKeyword(json) == Truthy(json, <<"keyword">>)

\* C23: of an array cut inside its k-th object, exactly the k-1 complete
\* objects before the cut are extracted, in order (k > 1, each of them with a
\* keyword).
C23_TruncatedArraySalvaged ==
    (/\ extraction.path # "none"
     /\ response.kind = "truncated"
     /\ CutInsideElement(response.elements, response.cut)
     /\ CompleteElements(response.elements, response.cut) >= 1
     /\ \A i \in 1 .. CompleteElements(response.elements, response.cut) :
           HasNonEmptyKeyword(response.elements[i]))
        => parsedData = JsonArray(SubSeq(response.elements, 1,
                                         CompleteElements(response.elements, response.cut)))

\* C24: no keyword record that expandKeywords delivers has an empty keyword:
\* objects without a keyword, or with an empty one, are dropped on every
\* parse path.
C24_NoEmptyKeywordDelivered ==
    expansion # <<>> => \A i \in 1 .. Len(expansion[1]) : expansion[1][i].keyword # <<>>

\* The scan as the claim describes it: from the first opening bracket outside
\* a string to its matching closing bracket, brackets inside quoted strings
\* and escaped characters not counted, a closing bracket before the first
\* opening one ignored.
NotMatched ==
    [found |-> FALSE, depth |-> 0, startIdx |-> 0, end |-> 0,
     inString |-> FALSE, escaped |-> FALSE]
MatchingTurn(str, startChar, endChar, s, i) ==
    IF s.found THEN s
    ELSE IF s.escaped THEN [s EXCEPT !.escaped = FALSE]
    ELSE IF s.inString /\ str[i] = Backslash THEN [s EXCEPT !.escaped = TRUE]
    ELSE IF str[i] = Quote THEN [s EXCEPT !.inString = ~@]
    ELSE IF s.inString THEN s
    ELSE IF str[i] = startChar
         THEN [s EXCEPT !.depth = @ + 1, !.startIdx = IF @ = 0 THEN i ELSE @]
    ELSE IF str[i] = endChar /\ s.startIdx # 0
         THEN IF s.depth = 1 THEN [s EXCEPT !.found = TRUE, !.end = i]
              ELSE [s EXCEPT !.depth = @ - 1]
    ELSE s

RECURSIVE MatchingScan(_, _, _, _, _, _)
MatchingScan(str, startChar, endChar, lo, hi, from) ==
    IF lo > hi THEN from
    ELSE IF lo = hi THEN MatchingTurn(str, startChar, endChar, from, lo)
    ELSE CHOOSE after \in {MatchingScan(str, startChar, endChar, (lo + hi) \div 2 + 1, hi, half) :
                              half \in {MatchingScan(str, startChar, endChar, lo, (lo + hi) \div 2, from)}} : TRUE

MatchingBracket(str, startChar, endChar) ==
    LET s == MatchingScan(str, startChar, endChar, 1, Len(str), NotMatched)
    IN IF s.found THEN [found |-> TRUE, json |-> SubSeq(str, s.startIdx, s.end)] ELSE NoJSON

\* C25: whenever makeLLMRequest scans the text for a balanced array, the scan
\* returns the substring from the first opening bracket to its matching
\* closing bracket, where brackets inside strings and a closing bracket
\* before the first opening one do not count.
C25_BalancedScanRespectsStrings ==
    extraction.path \notin {"none", "direct"}
        => extraction.scan = MatchingBracket(response.text, "[", "]")

\* C26: an answer from which nothing can be salvaged (prose without any JSON
\* value) ends the request with a ParseError: it is not a success, it is not
\* counted in metrics.successes and its text is not written to the cache.
C26_ParseFailureEscalates ==
    (extraction.path # "none" /\ response.kind = "prose")
        => /\ extraction.outcome = "ParseError"
           /\ metrics.successes = 0
           /\ ~CacheHas(cache, ExpansionKey)

-----------------------------------------------------------------------------
(* Part III - one network call of a provider client                        *)
(*                                                                         *)
(* AhrefsClient.executeRequest and DataForSEOClient.executeRequest call    *)
(* fetch with an AbortController whose timer is options.timeout;           *)
(* GeminiClient.makeLLMRequest calls generateContent of the SDK. The       *)
(* operations of the clients sit on top, with their own try / catch.       *)

FetchClients == {"ahrefs", "dataforseo", "gemini"}
OperationsOf(c) ==
    CASE c = "ahrefs" -> {"getSiteMetrics", "getOrganicKeywords", "getCompetitorKeywords",
                          "getKeywordMetrics"}
      [] c = "dataforseo" -> {"getKeywordData", "getKeywordDifficulty"}
      [] c = "gemini" -> {"classifyIntent"}

\* The operations whose catch block returns a result of its own
CatchingOperations ==
    {"getOrganicKeywords", "getCompetitorKeywords", "getKeywordMetrics", "getKeywordData"}

\* What the upstream does: nothing at all, or an answer with a status and a
\* body. The body is JSON or other text; a JSON body may carry an error
\* message (error for Ahrefs, status_message with a status_code other than
\* 20000 for DataForSEO).
Silent == [answers |-> FALSE, status |-> 0, json |-> FALSE, error |-> "none"]
Statuses == {200, 403, 429, 500}
UpstreamBehaviours ==
    {Silent} \cup
    {a \in [answers : {TRUE}, status : Statuses, json : BOOLEAN,
            error : {"none", "Insufficient plan", "Too many requests"}] :
        a.error # "none" => a.json}

AhrefsRetryAfter == 60      \* parseInt(response.headers.get('retry-after') || '60')
DataForSEORetryAfter == 1   \* retryAfter: 1

NotSettled == [ended |-> "pending", error |-> "none", retryAfter |-> NULL]
Resolved == [ended |-> "returned", error |-> "none", retryAfter |-> NULL]
Thrown(error, retryAfter) == [ended |-> "thrown", error |-> error, retryAfter |-> retryAfter]

\* AhrefsClient.executeRequest once fetch has resolved (lines 130 to 174).
\* The RateLimitError is thrown inside the try block that parses the error
\* body; its catch rethrows it only if its message includes 'Rate limit'
\* (wording: whether the message ErrorHandler gives it does).
ahrefsExecuteRequest(answer, wording) ==
    IF answer.status = 200
      THEN IF answer.json THEN Resolved ELSE Thrown("SyntaxError", NULL)
    ELSE IF answer.json /\ answer.status = 429 /\ wording
      THEN Thrown("RateLimitError", AhrefsRetryAfter)
    ELSE Thrown("Error", NULL)

\* The flag executeRequest clears on a 403 'Insufficient plan' of a
\* keywords-explorer endpoint
ahrefsPlanFlag(answer, operation, flag) ==
    IF answer.status = 403 /\ answer.json /\ answer.error = "Insufficient plan"
          /\ operation = "getKeywordMetrics"
      THEN "false" ELSE flag

\* DataForSEOClient.executeRequest once fetch has resolved (lines 655 to
\* 696): the body is read as JSON before the status is looked at
dataForSEOExecuteRequest(answer) ==
    IF ~answer.json THEN Thrown("SyntaxError", NULL)
    ELSE IF answer.status = 200 /\ answer.error = "none" THEN Resolved
    ELSE IF answer.status = 429 THEN Thrown("RateLimitError", DataForSEORetryAfter)
    ELSE Thrown("Error", NULL)

\* generateContent of the SDK: the answer, or the SDK's error
generateContent(answer) == IF answer.status = 200 THEN Resolved ELSE Thrown("Error", NULL)

NoFetch == [client |-> "none", operation |-> "none", pc |-> "idle", timer |-> "none",
            wording |-> FALSE]
NotDelivered == [returned |-> FALSE, success |-> FALSE, error |-> "none", data |-> "none"]

\* executeRequest up to its fetch: the abort timer is set, the request goes out
ExecuteRequest ==
    /\ fetchCall.pc = "idle"
    /\ fetchCall.client \in {"ahrefs", "dataforseo"}
    /\ fetchCall' = [fetchCall EXCEPT !.pc = "fetching", !.timer = "armed"]
    /\ UNCHANGED <<upstream, settled, delivered, fingerprintVars, extractorVars,
                   isolationVars, cascadeVars, gatewayVars, outerVars>>

\* makeLLMRequest up to generateContent: no timer, no abort signal
GenerateContent ==
    /\ fetchCall.pc = "idle"
    /\ fetchCall.client = "gemini"
    /\ fetchCall' = [fetchCall EXCEPT !.pc = "fetching"]
    /\ UNCHANGED <<upstream, settled, delivered, fingerprintVars, extractorVars,
                   isolationVars, cascadeVars, gatewayVars, outerVars>>

\* The upstream answers: clearTimeout, then the status and the body decide
FetchResolves ==
    /\ fetchCall.pc = "fetching"
    /\ upstream.answers
    /\ fetchCall' = [fetchCall EXCEPT !.pc = "settled",
                                      !.timer = IF @ = "armed" THEN "cleared" ELSE @]
    /\ settled' = CASE fetchCall.client = "ahrefs" ->
                           ahrefsExecuteRequest(upstream, fetchCall.wording)
                    [] fetchCall.client = "dataforseo" -> dataForSEOExecuteRequest(upstream)
                    [] fetchCall.client = "gemini" -> generateContent(upstream)
    /\ keywordsExplorerAvailable' =
          IF fetchCall.client = "ahrefs"
            THEN ahrefsPlanFlag(upstream, fetchCall.operation, keywordsExplorerAvailable)
            ELSE keywordsExplorerAvailable
    /\ UNCHANGED <<upstream, delivered, fingerprintVars, extractorVars, isolationVars,
                   env, config, constructed, dataForSEOClient, ahrefsClient,
                   activeProvider, call, result, gatewayVars, outerVars>>

\* The abort timer fires first: controller.abort(), fetch rejects with an
\* AbortError, executeRequest throws the TimeoutError
AbortTimerFires ==
    /\ fetchCall.pc = "fetching"
    /\ fetchCall.timer = "armed"
    /\ fetchCall' = [fetchCall EXCEPT !.pc = "settled", !.timer = "fired"]
    /\ settled' = Thrown("TimeoutError", NULL)
    /\ UNCHANGED <<upstream, delivered, fingerprintVars, extractorVars, isolationVars,
                   cascadeVars, gatewayVars, outerVars>>

\* The operation around the request: it passes the result or the error on,
\* or its catch block makes a result (an empty list, mock metrics)
OperationEnds ==
    /\ fetchCall.pc = "settled"
    /\ fetchCall' = [fetchCall EXCEPT !.pc = "done"]
    /\ delivered' =
          IF settled.ended = "returned"
            THEN [returned |-> TRUE, success |-> TRUE, error |-> "none", data |-> "upstream"]
          ELSE IF fetchCall.operation \in CatchingOperations
            THEN [returned |-> TRUE, success |-> TRUE, error |-> "none",
                  data |-> IF fetchCall.operation = "getKeywordMetrics" THEN "mock"
                           ELSE "empty"]
          ELSE [returned |-> FALSE, success |-> FALSE, error |-> settled.error,
                data |-> "none"]
    /\ UNCHANGED <<upstream, settled, fingerprintVars, extractorVars, isolationVars,
                   cascadeVars, gatewayVars, outerVars>>

InitFetch ==
    /\ \E c \in FetchClients, operation \in UNION {OperationsOf(k) : k \in FetchClients},
          wording \in BOOLEAN :
          /\ operation \in OperationsOf(c)
          /\ wording => c = "ahrefs"
          /\ fetchCall = [client |-> c, operation |-> operation, pc |-> "idle",
                          timer |-> "none", wording |-> wording]
          /\ keywordsExplorerAvailable = IF c = "ahrefs" THEN "true" ELSE "null"
    /\ upstream \in UpstreamBehaviours
    /\ settled = NotSettled
    /\ delivered = NotDelivered
    /\ owns = <<>>
    /\ instances = <<>>
    /\ response = <<>>
    /\ parsedData = <<>>
    /\ extraction = <<>>
    /\ expansion = <<>>
    /\ submitted = <<>>
    /\ cacheKey = <<>>
    /\ client = "gemini"
    /\ labelCallThrows = FALSE
    /\ workload = [callers |-> {}, keys |-> {}, operations |-> {}]
    /\ now = 0
    /\ breaker = Closed(0)
    /\ limiter = [tokens |-> FullBucket, lastRefillTime |-> 0]
    /\ cache = <<>>
    /\ requests = <<>>
    /\ networkFailures = <<>>
    /\ metrics = NoMetrics
    /\ calls = <<>>
    /\ env = [dataforseo |-> FALSE, ahrefs |-> FALSE]
    /\ config = [mockMode |-> FALSE, preferredProvider |-> "auto"]
    /\ constructed = FALSE
    /\ dataForSEOClient = FALSE
    /\ ahrefsClient = FALSE
    /\ activeProvider = "mock"
    /\ call = NoCall
    /\ result = <<>>
    /\ handled = <<>>
    /\ scrapeRun = <<>>
    /\ creditsUsed = <<>>
    /\ explorerCalls = <<>>

NextFetch ==
    ExecuteRequest \/ GenerateContent \/ FetchResolves \/ AbortTimerFires \/ OperationEnds

SpecFetch == InitFetch /\ [][NextFetch]_vars

\* Every step that can be taken is taken in the end: requests go out, timers
\* that are set fire unless they are cleared, answers that come are handled.
SpecFetchLive == SpecFetch /\ WF_vars(NextFetch)

\* C27: when the upstream answers 429, executeRequest of the Ahrefs and the
\* DataForSEO client throws a RateLimitError that carries a retry-after
\* value, whatever the body of the answer is.
C27_RateLimitErrorOn429 ==
    (/\ fetchCall.client \in {"ahrefs", "dataforseo"}
     /\ fetchCall.pc \in {"settled", "done"}
     /\ fetchCall.timer = "cleared"
     /\ upstream.status = 429)
        => settled.error = "RateLimitError" /\ settled.retryAfter # NULL

\* C28: a network call whose upstream never answers ends with a
\* TimeoutError: it does not stay pending for ever.
C28_SilentUpstreamTimesOut ==
    (fetchCall.pc = "fetching" /\ ~upstream.answers) ~> (settled.error = "TimeoutError")

\* C29: an operation whose network call failed reports the error to its
\* caller: it never returns a successful result.
C29_FailedCallReported ==
    (fetchCall.pc = "done" /\ settled.ended = "thrown")
        => ~delivered.success /\ delivered.error = settled.error

-----------------------------------------------------------------------------
(* Part III - the admission state of several provider clients              *)
(*                                                                         *)
(* GeminiClient takes its limiter and breaker from createAnthropicLimiter  *)
(* and createAnthropicBreaker, as the Anthropic client does; both scrapers *)
(* take theirs from createScraperLimiter and createScraperBreaker.         *)

ProviderClients == {"anthropic", "gemini", "enhanced-scraper", "firecrawl"}
Preset(c) == IF c \in {"anthropic", "gemini"} THEN "anthropic" ELSE "scraper"
\* the pairs of clients that use the same factory methods
FactoryPairs == {{"anthropic", "gemini"}, {"enhanced-scraper", "firecrawl"}}
InstanceIds == ProviderClients \cup {"anthropic-preset", "scraper-preset"}

\* A slip: the factory methods keep one instance per preset and hand it to
\* every client that asks.
createForPreset(c) == IF Preset(c) = "anthropic" THEN "anthropic-preset" ELSE "scraper-preset"

\* RateLimiterFactory.create...Limiter(), CircuitBreakerFactory.create...Breaker()
\* called by the constructor of client c: the instance the client gets. Each
\* client owns its instances.
createForClient(c) == c

Fresh == [limiter |-> [tokens |-> FullBucket, lastRefillTime |-> 0], breaker |-> Closed(0)]
Constructed(c) == owns[c] # "none"

\* The constructor of client c
ConstructClient(c) ==
    /\ ~Constructed(c)
    /\ owns' = [owns EXCEPT ![c] = createForClient(c)]
    /\ UNCHANGED <<instances, fingerprintVars, extractorVars, fetchVars, cascadeVars,
                   gatewayVars, outerVars>>

\* A request of client c asks its limiter for a token
ConsumeToken(c) ==
    /\ Constructed(c)
    /\ instances' = [instances EXCEPT ![owns[c]].limiter = tryConsume(@, 1, now).limiter]
    /\ UNCHANGED <<owns, fingerprintVars, extractorVars, fetchVars, cascadeVars,
                   gatewayVars, outerVars>>

\* A request of client c goes through its breaker: rejected, or admitted and
\* its outcome recorded
ExecuteCall(c) ==
    /\ Constructed(c)
    /\ \E success \in BOOLEAN :
          LET gate == BreakerGate(instances[owns[c]].breaker, now)
          IN instances' = [instances EXCEPT ![owns[c]].breaker =
                              IF gate.admitted
                                THEN BreakerRecord(gate.breaker, gate.probe, success, now)
                                ELSE gate.breaker]
    /\ UNCHANGED <<owns, fingerprintVars, extractorVars, fetchVars, cascadeVars,
                   gatewayVars, outerVars>>

InitIsolation ==
    /\ owns = [c \in ProviderClients |-> "none"]
    /\ instances = [i \in InstanceIds |-> Fresh]
    /\ workload \in {[callers |-> pair, keys |-> {}, operations |-> {}] : pair \in FactoryPairs}
    /\ now = 0
    /\ fetchCall = NoFetch
    /\ upstream = Silent
    /\ settled = NotSettled
    /\ delivered = NotDelivered
    /\ response = <<>>
    /\ parsedData = <<>>
    /\ extraction = <<>>
    /\ expansion = <<>>
    /\ submitted = <<>>
    /\ cacheKey = <<>>
    /\ client = "gemini"
    /\ labelCallThrows = FALSE
    /\ breaker = Closed(0)
    /\ limiter = [tokens |-> FullBucket, lastRefillTime |-> 0]
    /\ cache = <<>>
    /\ requests = <<>>
    /\ networkFailures = <<>>
    /\ metrics = NoMetrics
    /\ calls = <<>>
    /\ env = [dataforseo |-> FALSE, ahrefs |-> FALSE]
    /\ config = [mockMode |-> FALSE, preferredProvider |-> "auto"]
    /\ constructed = FALSE
    /\ dataForSEOClient = FALSE
    /\ ahrefsClient = FALSE
    /\ activeProvider = "mock"
    /\ keywordsExplorerAvailable = "null"
    /\ call = NoCall
    /\ result = <<>>
    /\ handled = <<>>
    /\ scrapeRun = <<>>
    /\ creditsUsed = <<>>
    /\ explorerCalls = <<>>

ClientStep(c) == ConstructClient(c) \/ ConsumeToken(c) \/ ExecuteCall(c)

\* The clock stands still: what a step touches does not depend on the time.
NextIsolation == \E c \in workload.callers : ClientStep(c)

SpecIsolation == InitIsolation /\ [][NextIsolation]_vars

-----------------------------------------------------------------------------
(* Part IV - the route handlers POST /api/expansion/dream100 and           *)
(* POST /api/expansion/universe                                            *)
(*                                                                         *)
(* An error message is the phrases it holds, in order, and its length in   *)
(* characters; includes() looks for a phrase, letter case included.        *)

MaxHandled == 2     \* requests the two routes answer in one behaviour

Phrases ==
    {"overloaded", "529", "rate limit", "Rate limit", "429", "Circuit breaker",
     "timeout", "Timeout", "API key", "authentication", "JSON",
     "Invalid universe result", "failed"}
DetailsLimit == 200
MessageLengths == {DetailsLimit - 1, DetailsLimit}
Message(phrases, length) == [phrases |-> phrases, length |-> length]
ErrorMessages ==
    {Message(<<p>>, n) : p \in Phrases, n \in MessageLengths}
        \cup {Message(<<"JSON", "Timeout">>, DetailsLimit - 1),
              Message(<<"timeout", "API key">>, DetailsLimit - 1)}
includes(message, phrase) ==
    \E i \in 1 .. Len(message.phrases) : message.phrases[i] = phrase

\* What a handler's try block throws: an Error with its message, or a value
\* that is not an Error
Error(message) == [isError |-> TRUE, message |-> message]
NotAnError == [isError |-> FALSE, message |-> Message(<<>>, 0)]
SyntaxErrorOfBody == Error(Message(<<"Unexpected token", "JSON">>, DetailsLimit - 1))
InvalidUniverseResult == Error(Message(<<"Invalid universe result">>, DetailsLimit - 1))
Throwables == {Error(m) : m \in ErrorMessages} \cup {NotAnError}

\* What the expansion service does with the call
NoOutcome == [kind |-> "none", error |-> NotAnError]
Succeeds == [kind |-> "success", error |-> NotAnError]
Malformed == [kind |-> "malformed", error |-> NotAnError]
Throws(error) == [kind |-> "throws", error |-> error]
ServiceOutcomes == {Succeeds} \cup {Throws(e) : e \in Throwables}

\* A request: its body, whether the API key the route needs is configured,
\* and what the service does if the handler gets as far as calling it
RouteRequest(body, apiKey, outcome) == [body |-> body, apiKey |-> apiKey, outcome |-> outcome]
RequestsOf(outcomes) ==
    {RouteRequest(b, TRUE, NoOutcome) : b \in {"unparsable", "noKeywords", "tooMany"}}
        \cup {RouteRequest("valid", FALSE, NoOutcome)}
        \cup {RouteRequest("valid", TRUE, o) : o \in outcomes}

\* NextResponse.json(...): the status, the error field and errorDetails, which
\* is a fixed text or the raw message of the error
Fixed(text) == [text |-> text, raw |-> <<>>]
Raw(message) == [text |-> "", raw |-> <<message>>]
Json(status, error, errorDetails) ==
    [status |-> status, error |-> error, errorDetails |-> errorDetails]
Success == Json(200, "", Fixed(""))

\* The catch block of the dream100 route
dream100Catch(error) ==
    IF error.isError /\ includes(error.message, "JSON")
    THEN Json(400, "Invalid JSON in request body", Fixed(""))
    ELSE IF ~error.isError
    THEN Json(500, "Failed to generate Dream 100 keywords", Fixed(""))
    ELSE LET errorStr == error.message
         IN IF includes(errorStr, "overloaded") \/ includes(errorStr, "529")
            THEN Json(500, "Service temporarily unavailable", Fixed("overloaded"))
            ELSE IF includes(errorStr, "rate limit") \/ includes(errorStr, "429")
            THEN Json(500, "Rate limit exceeded", Fixed("too many requests"))
            ELSE IF includes(errorStr, "Circuit breaker")
            THEN Json(500, "Service temporarily unavailable", Fixed("circuit breaker"))
            ELSE IF includes(errorStr, "timeout") \/ includes(errorStr, "Timeout")
            THEN Json(500, "Request timed out", Fixed("took too long"))
            ELSE IF includes(errorStr, "API key") \/ includes(errorStr, "authentication")
            THEN Json(500, "Authentication failed", Fixed("credentials"))
            ELSE Json(500, "Failed to generate Dream 100 keywords",
                      IF errorStr.length < DetailsLimit THEN Raw(errorStr)
                      ELSE Fixed("unexpected error"))

\* POST of the dream100 route
dream100POST(request) ==
    IF request.body = "unparsable" THEN dream100Catch(SyntaxErrorOfBody)
    ELSE IF request.body = "noKeywords" THEN Json(400, "Seed keywords are required", Fixed(""))
    ELSE IF request.body = "tooMany"
    THEN Json(400, "Maximum 20 seed keywords allowed", Fixed(""))
    ELSE IF ~request.apiKey THEN Json(400, "API key not configured", Fixed("requires key"))
    ELSE IF request.outcome.kind = "throws" THEN dream100Catch(request.outcome.error)
    ELSE Success

\* The catch block of the universe route
universeCatch(error) ==
    IF ~error.isError
    THEN Json(500, "Failed to expand keyword universe", Fixed(""))
    ELSE LET errorStr == error.message
         IN IF includes(errorStr, "overloaded") \/ includes(errorStr, "529")
            THEN Json(500, "Service temporarily unavailable", Fixed("overloaded"))
            ELSE IF includes(errorStr, "rate limit") \/ includes(errorStr, "429")
            THEN Json(500, "Rate limit exceeded", Fixed("too many requests"))
            ELSE IF includes(errorStr, "Circuit breaker")
            THEN Json(500, "Service temporarily unavailable", Fixed("circuit breaker"))
            ELSE IF includes(errorStr, "timeout") \/ includes(errorStr, "Timeout")
            THEN Json(500, "Request timed out", Fixed("took too long"))
            ELSE IF includes(errorStr, "API key") \/ includes(errorStr, "authentication")
            THEN Json(500, "Authentication failed", Fixed("credentials"))
            ELSE IF includes(errorStr, "Invalid universe result")
            THEN Json(500, "Invalid response from service", Fixed("unexpected format"))
            ELSE Json(500, "Failed to expand keyword universe",
                      IF errorStr.length < DetailsLimit THEN Raw(errorStr)
                      ELSE Fixed("unexpected error"))

\* POST of the universe route
universePOST(request) ==
    IF request.body = "unparsable" THEN universeCatch(SyntaxErrorOfBody)
    ELSE IF request.body = "noKeywords"
    THEN Json(400, "Dream 100 keywords are required for universe expansion", Fixed(""))
    ELSE IF request.body = "tooMany"
    THEN Json(400, "Maximum 100 Dream keywords allowed", Fixed(""))
    ELSE IF ~request.apiKey
    THEN Json(400, "Anthropic API key not configured", Fixed("requires key"))
    ELSE IF request.outcome.kind = "throws" THEN universeCatch(request.outcome.error)
    ELSE IF request.outcome.kind = "malformed" THEN universeCatch(InvalidUniverseResult)
    ELSE Success

Handled(route, request, reply) ==
    [route |-> route, request |-> request, response |-> reply]

Dream100POST ==
    /\ Len(handled) < MaxHandled
    /\ \E request \in RequestsOf(ServiceOutcomes) :
          handled' = Append(handled, Handled("dream100", request, dream100POST(request)))
    /\ UNCHANGED <<cascadeVars, gatewayVars, clientVars, scraperVars, explorerVars>>

UniversePOST ==
    /\ Len(handled) < MaxHandled
    /\ \E request \in RequestsOf(ServiceOutcomes \cup {Malformed}) :
          handled' = Append(handled, Handled("universe", request, universePOST(request)))
    /\ UNCHANGED <<cascadeVars, gatewayVars, clientVars, scraperVars, explorerVars>>

InitRoutes ==
    /\ handled = <<>>
    /\ env = [dataforseo |-> FALSE, ahrefs |-> FALSE]
    /\ config = [mockMode |-> FALSE, preferredProvider |-> "auto"]
    /\ constructed = FALSE
    /\ dataForSEOClient = FALSE
    /\ ahrefsClient = FALSE
    /\ activeProvider = "mock"
    /\ keywordsExplorerAvailable = "null"
    /\ call = NoCall
    /\ result = <<>>
    /\ client = "gemini"
    /\ labelCallThrows = FALSE
    /\ now = 0
    /\ breaker = Closed(0)
    /\ limiter = [tokens |-> FullBucket, lastRefillTime |-> 0]
    /\ cache = <<>>
    /\ requests = <<>>
    /\ networkFailures = <<>>
    /\ metrics = NoMetrics
    /\ calls = <<>>
    /\ workload = [callers |-> {}, keys |-> {}, operations |-> {}]
    /\ submitted = <<>>
    /\ cacheKey = <<>>
    /\ response = <<>>
    /\ parsedData = <<>>
    /\ extraction = <<>>
    /\ expansion = <<>>
    /\ fetchCall = <<>>
    /\ upstream = <<>>
    /\ settled = <<>>
    /\ delivered = <<>>
    /\ owns = <<>>
    /\ instances = <<>>
    /\ scrapeRun = <<>>
    /\ creditsUsed = <<>>
    /\ explorerCalls = <<>>

NextRoutes == Dream100POST \/ UniversePOST

SpecRoutes == InitRoutes /\ [][NextRoutes]_vars

\* The error the catch block of a handled request received, if any
Caught(h) ==
    IF h.request.body = "unparsable" THEN <<SyntaxErrorOfBody>>
    ELSE IF h.request.outcome.kind = "throws" THEN <<h.request.outcome.error>>
    ELSE IF h.request.outcome.kind = "malformed" THEN <<InvalidUniverseResult>>
    ELSE <<>>

\* The known error patterns of a route, by kind, and the kinds an error
\* belongs to
KnownPatterns(route) ==
    {<<"overloaded", "overloaded">>, <<"overloaded", "529">>,
     <<"rate-limited", "rate limit">>, <<"rate-limited", "429">>,
     <<"circuit-open", "Circuit breaker">>,
     <<"timeout", "timeout">>, <<"timeout", "Timeout">>,
     <<"auth", "API key">>, <<"auth", "authentication">>}
        \cup (IF route = "universe" THEN {<<"invalid-result", "Invalid universe result">>}
              ELSE {})
KindsOf(route, error) ==
    {pattern[1] : pattern \in {p \in KnownPatterns(route) : includes(error.message, p[2])}}
OfKind(h, kind) ==
    /\ Caught(h) # <<>>
    /\ Caught(h)[1].isError
    /\ KindsOf(h.route, Caught(h)[1]) = {kind}
Unrecognised(h) ==
    /\ Caught(h) # <<>>
    /\ Caught(h)[1].isError
    /\ KindsOf(h.route, Caught(h)[1]) = {}
    /\ ~includes(Caught(h)[1].message, "JSON")
ErrorKinds == {"overloaded", "rate-limited", "circuit-open", "timeout", "auth"}

\* C31: two errors of different known kinds (overloaded, rate-limited,
\* circuit-open, timeout, auth) never get the same user-visible error
\* message, and an error that matches no known pattern gets a generic message
\* that does not hold the raw text of the error.
C31_ErrorsMappedToCategories ==
    /\ \A i, j \in 1 .. Len(handled) :
          \A k1, k2 \in ErrorKinds :
             (k1 # k2 /\ OfKind(handled[i], k1) /\ OfKind(handled[j], k2))
                => handled[i].response.error # handled[j].response.error
    /\ \A i \in 1 .. Len(handled) :
          Unrecognised(handled[i]) => handled[i].response.errorDetails.raw = <<>>

\* C39: the dream100 route answers 'Invalid JSON in request body' with status
\* 400 only when the request body failed to parse, and answers an error of
\* the expansion service with status 500.
C39_InvalidJsonOnlyForBody ==
    \A i \in 1 .. Len(handled) :
       handled[i].route = "dream100"
          => /\ (handled[i].response.error = "Invalid JSON in request body"
                    /\ handled[i].response.status = 400)
                => handled[i].request.body = "unparsable"
             /\ handled[i].request.outcome.kind = "throws"
                => handled[i].response.status = 500

-----------------------------------------------------------------------------
(* Part IV - FirecrawlScraper.scrapeUrl and scrapeBatch,                   *)
(* EnhancedWebScraper.scrapeWithHttp                                       *)

MaxUrls == 2        \* longest URL list handed to a scraper

\* A URL is its scheme, host and path; new URL(url) throws without a scheme
Url(scheme, host, path) == [scheme |-> scheme, host |-> host, path |-> path]
Urls ==
    {Url("https", "a.com", "/1"), Url("https", "a.com", "/2"),
     Url("https", "b.org", "/"), Url("", "a.com", "/3")}
UrlLists == UNION {[1 .. n -> Urls] : n \in 0 .. MaxUrls}
IsValidUrl(url) == url.scheme # ""
hostname(url) == url.host

\* How the try block of scrapeUrl ends: circuitBreaker.execute rejects or
\* throws on its label, rateLimiter.consume rejects, withRetry gives up, or
\* the page is there
ScrapeEndings == {"CircuitOpen", "TypeError", "RateLimit", "UpstreamError", "success"}

\* What a call gives: a returned ApiResponse, or a thrown error
Returns(success, data, error, credits) ==
    [thrown |-> FALSE, success |-> success, data |-> data, error |-> error,
     creditsUsed |-> credits]
ThrowsError(error) ==
    [thrown |-> TRUE, success |-> FALSE, data |-> <<>>, error |-> error, creditsUsed |-> 0]

\* FirecrawlScraper.scrapeUrl: its try block, its catch block, the method
scrapeUrlTry(url, ending) ==
    IF ending = "success" THEN Returns(TRUE, <<url>>, "", 1) ELSE ThrowsError(ending)
scrapeUrlCatch(error) == Returns(FALSE, <<>>, error, 0)
scrapeUrl(url, ending) ==
    LET attempt == scrapeUrlTry(url, ending)
    IN IF attempt.thrown THEN scrapeUrlCatch(attempt.error) ELSE attempt
creditsAfter(credits, ending) == IF ending = "success" THEN credits + 1 ELSE credits

\* The scraped lists of a batch
Failure(url, error) == [url |-> url, error |-> error]
NoResults(urls) ==
    [successful |-> <<>>, failed |-> <<>>, robotsBlocked |-> <<>>,
     totalAttempted |-> Len(urls), creditsUsed |-> 0]
NoScrape == [ending |-> "none", result |-> Returns(FALSE, <<>>, "", 0), creditsBefore |-> 0]
NoRun ==
    [scraper |-> "none", pc |-> "idle", urls |-> <<>>, respectRobots |-> FALSE,
     groups |-> <<>>, done |-> 0, results |-> NoResults(<<>>), last |-> NoScrape]

\* FirecrawlScraper.scrapeBatch is called
ScrapeBatch ==
    /\ scrapeRun.pc = "idle"
    /\ \E urls \in UrlLists :
          scrapeRun' = [NoRun EXCEPT !.scraper = "firecrawl", !.pc = "urls", !.urls = urls,
                                     !.results = NoResults(urls)]
    /\ UNCHANGED <<creditsUsed, routeVars, explorerVars, cascadeVars, gatewayVars, clientVars>>

\* One turn of the loop of scrapeBatch: scrapeUrl for the next URL, and the
\* list its scraped goes to
ScrapeBatchUrl ==
    /\ scrapeRun.scraper = "firecrawl"
    /\ scrapeRun.pc = "urls"
    /\ scrapeRun.done < Len(scrapeRun.urls)
    /\ \E ending \in ScrapeEndings :
          LET url == scrapeRun.urls[scrapeRun.done + 1]
              scraped == scrapeUrl(url, ending)
              lists == scrapeRun.results
          IN /\ creditsUsed' = creditsAfter(creditsUsed, ending)
             /\ scrapeRun' =
                  [scrapeRun EXCEPT
                     !.done = @ + 1,
                     !.last = [ending |-> ending, result |-> scraped,
                               creditsBefore |-> creditsUsed],
                     !.results =
                        IF scraped.thrown
                          THEN [lists EXCEPT !.failed = Append(@, Failure(url, scraped.error))]
                        ELSE IF scraped.success /\ scraped.data # <<>>
                          THEN [lists EXCEPT
                                  !.successful = Append(@, scraped.data[1]),
                                  !.creditsUsed = @ + (IF scraped.creditsUsed # 0
                                                       THEN scraped.creditsUsed ELSE 1)]
                        ELSE [lists EXCEPT
                                !.failed = Append(@, Failure(url, IF scraped.error # ""
                                                                  THEN scraped.error
                                                                  ELSE "Unknown error"))]]
    /\ UNCHANGED <<routeVars, explorerVars, cascadeVars, gatewayVars, clientVars>>

\* new URL(url).hostname for every URL: the URLs of each domain, domains in
\* the order they first appear, and the failures for the URLs that do not
\* parse
RECURSIVE urlsByDomain(_, _, _)
urlsByDomain(urls, groups, failed) ==
    IF urls = <<>> THEN [groups |-> groups, failed |-> failed]
    ELSE LET url == Head(urls)
             domain == hostname(url)
         IN IF ~IsValidUrl(url)
            THEN urlsByDomain(Tail(urls), groups, Append(failed, Failure(url, "Invalid URL")))
            ELSE IF \E g \in 1 .. Len(groups) : groups[g].domain = domain
            THEN urlsByDomain(Tail(urls),
                              [g \in 1 .. Len(groups) |->
                                 IF groups[g].domain = domain
                                 THEN [groups[g] EXCEPT !.urls = Append(@, url)]
                                 ELSE groups[g]],
                              failed)
            ELSE urlsByDomain(Tail(urls),
                              Append(groups, [domain |-> domain, urls |-> <<url>>]), failed)

\* EnhancedWebScraper.checkRobotsTxt
checkRobotsTxt(domain) == [allowed |-> TRUE, crawlDelay |-> 1]

\* How this.makeRequest inside RetryHandler.withRetry ends for the scraper: a
\* successful ApiResponse with its data, or a thrown error
MakeRequestEndingsWithFailureResponse == {"data", "throws", "failure"}
MakeRequestEndings == {"data", "throws"}
makeRequest(url, ending) ==
    CASE ending = "data" -> Returns(TRUE, <<url>>, "", 0)
      [] ending = "throws" -> ThrowsError("ApiError")
      [] ending = "failure" -> Returns(FALSE, <<>>, "ApiError", 0)

\* EnhancedWebScraper.scrapeWithHttp is called: grouping the URLs
ScrapeWithHttp ==
    /\ scrapeRun.pc = "idle"
    /\ \E urls \in UrlLists, respectRobots \in BOOLEAN :
          LET grouped == urlsByDomain(urls, <<>>, <<>>)
          IN scrapeRun' = [NoRun EXCEPT !.scraper = "http", !.pc = "domains", !.urls = urls,
                                        !.respectRobots = respectRobots,
                                        !.groups = grouped.groups,
                                        !.results = [NoResults(urls) EXCEPT
                                                       !.failed = grouped.failed]]
    /\ UNCHANGED <<creditsUsed, routeVars, explorerVars, cascadeVars, gatewayVars, clientVars>>

\* The next domain: its robots.txt check
ScrapeWithHttpDomain ==
    /\ scrapeRun.scraper = "http"
    /\ scrapeRun.pc = "domains"
    /\ scrapeRun.groups # <<>>
    /\ LET group == Head(scrapeRun.groups)
           robotsCheck == checkRobotsTxt(group.domain)
       IN scrapeRun' =
            IF scrapeRun.respectRobots /\ ~robotsCheck.allowed
            THEN [scrapeRun EXCEPT !.groups = Tail(@),
                                   !.results.robotsBlocked = @ \o group.urls]
            ELSE [scrapeRun EXCEPT !.pc = "urls", !.done = 0]
    /\ UNCHANGED <<creditsUsed, routeVars, explorerVars, cascadeVars, gatewayVars, clientVars>>

\* The next URL of the domain: makeRequest under withRetry, and the list its
\* scraped goes to
ScrapeWithHttpUrl ==
    /\ scrapeRun.scraper = "http"
    /\ scrapeRun.pc = "urls"
    /\ LET group == Head(scrapeRun.groups)
       IN IF scrapeRun.done = Len(group.urls)
          THEN scrapeRun' = [scrapeRun EXCEPT !.pc = "domains", !.groups = Tail(@)]
          ELSE \E ending \in MakeRequestEndings :
                  LET url == group.urls[scrapeRun.done + 1]
                      answer == makeRequest(url, ending)
                  IN scrapeRun' =
                       [scrapeRun EXCEPT
                          !.done = @ + 1,
                          !.results =
                             IF answer.thrown
                               THEN [@ EXCEPT !.failed = Append(@, Failure(url, answer.error))]
                             ELSE IF answer.success /\ answer.data # <<>>
                               THEN [@ EXCEPT !.successful = Append(@, answer.data[1])]
                             ELSE @]
    /\ UNCHANGED <<creditsUsed, routeVars, explorerVars, cascadeVars, gatewayVars, clientVars>>

\* The loop is over: the lists are returned
ScrapeReturns ==
    /\ \/ scrapeRun.scraper = "firecrawl" /\ scrapeRun.pc = "urls"
             /\ scrapeRun.done = Len(scrapeRun.urls)
       \/ scrapeRun.scraper = "http" /\ scrapeRun.pc = "domains" /\ scrapeRun.groups = <<>>
    /\ scrapeRun' = [scrapeRun EXCEPT !.pc = "returned"]
    /\ UNCHANGED <<creditsUsed, routeVars, explorerVars, cascadeVars, gatewayVars, clientVars>>

InitScraper ==
    /\ scrapeRun = NoRun
    /\ creditsUsed = 0
    /\ env = [dataforseo |-> FALSE, ahrefs |-> FALSE]
    /\ config = [mockMode |-> FALSE, preferredProvider |-> "auto"]
    /\ constructed = FALSE
    /\ dataForSEOClient = FALSE
    /\ ahrefsClient = FALSE
    /\ activeProvider = "mock"
    /\ keywordsExplorerAvailable = "null"
    /\ call = NoCall
    /\ result = <<>>
    /\ client = "gemini"
    /\ labelCallThrows = FALSE
    /\ now = 0
    /\ breaker = Closed(0)
    /\ limiter = [tokens |-> FullBucket, lastRefillTime |-> 0]
    /\ cache = <<>>
    /\ requests = <<>>
    /\ networkFailures = <<>>
    /\ metrics = NoMetrics
    /\ calls = <<>>
    /\ workload = [callers |-> {}, keys |-> {}, operations |-> {}]
    /\ submitted = <<>>
    /\ cacheKey = <<>>
    /\ response = <<>>
    /\ parsedData = <<>>
    /\ extraction = <<>>
    /\ expansion = <<>>
    /\ fetchCall = <<>>
    /\ upstream = <<>>
    /\ settled = <<>>
    /\ delivered = <<>>
    /\ owns = <<>>
    /\ instances = <<>>
    /\ handled = <<>>
    /\ explorerCalls = <<>>

NextScraper ==
    \/ ScrapeBatch
    \/ ScrapeBatchUrl
    \/ ScrapeWithHttp
    \/ ScrapeWithHttpDomain
    \/ ScrapeWithHttpUrl
    \/ ScrapeReturns

SpecScraper == InitScraper /\ [][NextScraper]_vars

\* The URLs of a list of failures
FailedUrls(failed) == [i \in 1 .. Len(failed) |-> failed[i].url]

C38_ScrapeUrlReturnsFailures ==
    scrapeRun.last.ending # "none"
        => LET scraped == scrapeRun.last.result
           IN /\ ~scraped.thrown
              /\ scrapeRun.last.ending # "success"
                    => /\ ~scraped.success
                       /\ scraped.error # ""
                       /\ creditsUsed = scrapeRun.last.creditsBefore
              /\ scrapeRun.last.ending = "success"
                    => /\ scraped.success
                       /\ creditsUsed = scrapeRun.last.creditsBefore + 1

C38_Witness ==
    /\ scrapeRun.last.ending \in {"CircuitOpen", "RateLimit", "UpstreamError"}
    /\ creditsUsed >= 1

-----------------------------------------------------------------------------
(* Part IV - two concurrent callers of one GeminiClient, every cache key   *)

InitSharedCache ==
    /\ client = "gemini"
    /\ labelCallThrows = FALSE
    /\ workload = [callers |-> Callers, keys |-> CacheKeys, operations |-> Operations]
    /\ now = 0
    /\ breaker = Closed(0)
    /\ limiter = [tokens |-> FullBucket, lastRefillTime |-> 0]
    /\ cache = <<>>
    /\ requests = [c \in Callers |-> Idle]
    /\ networkFailures = <<>>
    /\ metrics = NoMetrics
    /\ calls = [c \in Callers |-> NoCallYet]
    /\ env = [dataforseo |-> FALSE, ahrefs |-> FALSE]
    /\ config = [mockMode |-> FALSE, preferredProvider |-> "auto"]
    /\ constructed = FALSE
    /\ dataForSEOClient = FALSE
    /\ ahrefsClient = FALSE
    /\ activeProvider = "mock"
    /\ keywordsExplorerAvailable = "null"
    /\ call = NoCall
    /\ result = <<>>
    /\ submitted = <<>>
    /\ cacheKey = <<>>
    /\ response = <<>>
    /\ parsedData = <<>>
    /\ extraction = <<>>
    /\ expansion = <<>>
    /\ fetchCall = <<>>
    /\ upstream = <<>>
    /\ settled = <<>>
    /\ delivered = <<>>
    /\ owns = <<>>
    /\ instances = <<>>
    /\ handled = <<>>
    /\ scrapeRun = <<>>
    /\ creditsUsed = <<>>
    /\ explorerCalls = <<>>

SpecSharedCache == InitSharedCache /\ [][NextLifecycle]_vars

\* the time a payload was given at (see Payload)
TimeOf(data) == data % (MaxTime + 1)
EntriesOf(store, key) == {i \in 1 .. Len(store) : store[i].key = key}

\* a finished request of another caller wrote the key less than ttl ago
WrittenWithinTtl(c, key) ==
    \E d \in Callers \ {c} :
       /\ requests[d].last = "success"
       /\ calls[d].pc = "returned"
       /\ calls[d].key = key
       /\ now < TimeOf(calls[d].data) + CacheTtl

\* C33 as stated: a write leaves the key with the complete result of the
\* writing request as its only entry (last writer wins), and every request
\* that starts less than ttl after a request for its key has written is a
\* hit.
C33_ConcurrentIdenticalRequests ==
    [][\A c \in Callers :
          /\ WritesCache(c) =>
                /\ Cardinality(EntriesOf(cache', calls[c].key)) = 1
                /\ CacheGet(cache', calls[c].key)
                      = [key |-> calls[c].key, data |-> calls'[c].data,
                         timestamp |-> now, ttl |-> CacheTtl]
          /\ (StartsRequest(c) /\ WrittenWithinTtl(c, calls'[c].key)) =>
                requests'[c].last = "cached"]_vars

\* C33, amended: a write leaves the key with the complete result of the
\* writing request as its only entry (last writer wins, no entry mixes two
\* results), and every request that starts while the entry of its key is in
\* the cache and unexpired is a hit that returns the data of that entry.
C33_LastWriterWins ==
    /\ [](\A k \in CacheKeys :
             /\ Cardinality(EntriesOf(cache, k)) <= 1
             /\ \A i \in EntriesOf(cache, k) :
                   /\ cache[i].data = Payload(k, cache[i].timestamp)
                   /\ cache[i].ttl = CacheTtl)
    /\ [][\A c \in Callers :
             /\ WritesCache(c) =>
                   CacheGet(cache', calls[c].key)
                      = [key |-> calls[c].key, data |-> calls'[c].data,
                         timestamp |-> now, ttl |-> CacheTtl]
             /\ (StartsRequest(c) /\ Unexpired(cache, calls'[c].key, now) # {}) =>
                   /\ requests'[c].last = "cached"
                   /\ calls'[c].data = CacheGet(cache, calls'[c].key).data]_vars

\* both callers missed the cold cache for one key and wrote it, one after the
\* other; the cache holds the later result
C33_Witness ==
    \E c, d \in Callers :
       /\ c # d
       /\ requests[c].last = "success" /\ requests[d].last = "success"
       /\ calls[c].pc = "returned" /\ calls[d].pc = "returned"
       /\ calls[c].key = calls[d].key
       /\ TimeOf(calls[c].data) < TimeOf(calls[d].data)
       /\ CacheHas(cache, calls[d].key)
       /\ CacheGet(cache, calls[d].key).data = calls[d].data

-----------------------------------------------------------------------------
(* Part IV - the usage metrics of GeminiClient *)

\* the makeLLMRequest call of c that missed the cache and passed the limiter
\* comes to its end in this step: it returns its result or throws
EndsPastLimiter(c) ==
    /\ requests[c].pc # "done"
    /\ requests'[c].pc = "done"
    /\ requests'[c].last \notin {"cached", "RateLimit"}

\* C34: metrics.requests is always metrics.successes + metrics.failures;
\* every call that missed the cache and passed the rate limiter adds exactly
\* one to metrics.requests (and nothing else does), and metrics.totalCost
\* changes only when a call succeeds.
C34_MetricsAccounting ==
    /\ [](metrics.requests = metrics.successes + metrics.failures)
    /\ [][LET ended == {c \in Callers : EndsPastLimiter(c)} IN
            /\ metrics'.requests = metrics.requests + Cardinality(ended)
            /\ metrics'.totalCost # metrics.totalCost =>
                    \E c \in ended : requests'[c].last = "success"]_vars

\* requests have succeeded, failed at the network, been refused by the
\* limiter and been answered from the cache
C34_Witness ==
    /\ metrics.successes > 0
    /\ metrics.failures > 0
    /\ metrics.rateLimitHits > 0
    /\ \E c \in Callers : requests[c].last = "cached"

-----------------------------------------------------------------------------
(* Part IV - requests that share a cache key *)

MaxKeyBatch == 4    \* longest batch a key is computed for

\* the industry of an expansion request ("saas", "health"); the other
\* operations take none
Industries == {"saas", "health"}
NoIndustry == "none"
IndustriesOf(operation) ==
    IF operation = "expandToDream100" THEN Industries ELSE {NoIndustry}

Batches == UNION {[1 .. n -> Words] : n \in 1 .. MaxKeyBatch}

\* a batch and the batches that differ from it in one keyword
Variants(batch) ==
    {batch} \cup {[batch EXCEPT ![i] = word] : i \in 1 .. Len(batch), word \in Words}

\* Two requests for one operation, alike or different in the locale, the
\* industry or one keyword.
InitCacheHits ==
    /\ \E operation \in CachingOperations, first \in Batches :
         \E second \in Variants(first), locales \in Locales \X Locales,
            industries \in IndustriesOf(operation) \X IndustriesOf(operation) :
            submitted = <<[operation |-> operation, locale |-> locales[1],
                           industry |-> industries[1], keywords |-> first],
                          [operation |-> operation, locale |-> locales[2],
                           industry |-> industries[2], keywords |-> second]>>
    /\ cacheKey = <<>>
    /\ env = [dataforseo |-> FALSE, ahrefs |-> FALSE]
    /\ config = [mockMode |-> FALSE, preferredProvider |-> "auto"]
    /\ constructed = FALSE
    /\ dataForSEOClient = FALSE
    /\ ahrefsClient = FALSE
    /\ activeProvider = "mock"
    /\ keywordsExplorerAvailable = "null"
    /\ call = NoCall
    /\ result = <<>>
    /\ client = "gemini"
    /\ labelCallThrows = FALSE
    /\ now = 0
    /\ breaker = Closed(0)
    /\ limiter = [tokens |-> FullBucket, lastRefillTime |-> 0]
    /\ cache = <<>>
    /\ requests = <<>>
    /\ networkFailures = <<>>
    /\ metrics = NoMetrics
    /\ calls = <<>>
    /\ workload = [callers |-> {}, keys |-> {}, operations |-> {}]
    /\ response = <<>>
    /\ parsedData = <<>>
    /\ extraction = <<>>
    /\ expansion = <<>>
    /\ fetchCall = <<>>
    /\ upstream = <<>>
    /\ settled = <<>>
    /\ delivered = <<>>
    /\ owns = <<>>
    /\ instances = <<>>
    /\ handled = <<>>
    /\ scrapeRun = <<>>
    /\ creditsUsed = <<>>
    /\ explorerCalls = <<>>

SpecCacheHits == InitCacheHits /\ [][NextFingerprint]_vars

\* the two requests ask for the same result: the same operation, locale and
\* industry over the same keywords
SameParameters(a, b) ==
    /\ a.operation = b.operation
    /\ a.locale = b.locale
    /\ a.industry = b.industry
    /\ sortWords(a.keywords) = sortWords(b.keywords)

\* C35: two requests that differ in a parameter their result depends on
\* (the industry of an expansion, a keyword of a batch past the third) never
\* share a cache key, so neither is answered with the other's cached value.
C35_NoFalseCacheHits ==
    (Len(cacheKey) = 2 /\ ~SameParameters(submitted[1], submitted[2]))
       => cacheKey[1] # cacheKey[2]

\* C36: the line that builds the cache key leaves the caller's keyword
\* array as it was passed, in the same order.
C36_InputsLeftUnchanged ==
    [][\A i \in 1 .. Len(submitted) :
          submitted'[i].keywords = submitted[i].keywords]_vars

-----------------------------------------------------------------------------
(* Part IV - the Keywords Explorer flag of one AhrefsClient                *)
(*                                                                         *)
(* getKeywordMetrics, getKeywordOverview and getKeywordIdeas are async:    *)
(* each awaits checkKeywordsExplorerAvailability and then its request, and *)
(* the calls of several callers interleave at those awaits.                *)

MaxExplorerSent == 3    \* requests the calls of one caller send

ExplorerOperations == {"getKeywordMetrics", "getKeywordOverview", "getKeywordIdeas"}

\* how a request to a keywords-explorer endpoint ends
RequestFailures == {"none", "insufficient", "error"}

NoExplorerCall ==
    [pc |-> "idle", operation |-> "none", answer |-> "none", source |-> "none", sent |-> 0]

\* checkKeywordsExplorerAvailability from the settling of its probe request
\* on: it was entered with the flag unknown, and sets the flag without
\* reading it again
ProbeSettled(flag, probe) ==
    LET chk == checkKeywordsExplorerAvailability("null", probe) IN
    [available |-> chk.available,
     flag |-> IF chk.flag = "null" THEN flag ELSE chk.flag]

\* A caller enters one of the three operations, which runs up to its first
\* network call: the probe when the flag is unknown, the request when the
\* flag says available, none (the mock data is returned) when it says
\* unavailable.
ExplorerCall(c) ==
    /\ explorerCalls[c].pc \in {"idle", "returned"}
    /\ explorerCalls[c].sent < MaxExplorerSent
    /\ \E operation \in ExplorerOperations :
          explorerCalls' = [explorerCalls EXCEPT ![c] =
             IF keywordsExplorerAvailable = "null"
               THEN [@ EXCEPT !.pc = "probe", !.operation = operation,
                              !.answer = "none", !.source = "none", !.sent = @ + 1]
             ELSE IF keywordsExplorerAvailable = "true"
               THEN [@ EXCEPT !.pc = "request", !.operation = operation,
                              !.answer = "none", !.source = "none", !.sent = @ + 1]
             ELSE [@ EXCEPT !.pc = "returned", !.operation = operation,
                            !.answer = "none", !.source = "mock"]]
    /\ UNCHANGED <<cascadeVars, gatewayVars, clientVars, routeVars, scraperVars>>

\* The probe of a caller settles: checkKeywordsExplorerAvailability sets the
\* flag and returns, and the operation sends its request or returns the mock
\* data.
ExplorerProbeSettles(c) ==
    /\ explorerCalls[c].pc = "probe"
    /\ \E probe \in ProbeOutcomes :
       LET chk == ProbeSettled(keywordsExplorerAvailable, probe) IN
       /\ keywordsExplorerAvailable' = chk.flag
       /\ explorerCalls' = [explorerCalls EXCEPT ![c] =
             IF chk.available
               THEN [@ EXCEPT !.pc = "request", !.answer = probe, !.sent = @ + 1]
             ELSE [@ EXCEPT !.pc = "returned", !.answer = probe, !.source = "mock"]]
    /\ UNCHANGED <<env, config, constructed, dataForSEOClient, ahrefsClient,
                   activeProvider, call, result, gatewayVars, clientVars,
                   routeVars, scraperVars>>

\* The request of a caller settles: executeRequest clears the flag on a 403
\* 'Insufficient plan', and the operation returns the answer or, from its
\* catch block, the mock data.
ExplorerRequestSettles(c) ==
    /\ explorerCalls[c].pc = "request"
    /\ \E failure \in RequestFailures :
       /\ keywordsExplorerAvailable' = FlagAfterRequest(keywordsExplorerAvailable, failure)
       /\ explorerCalls' = [explorerCalls EXCEPT ![c] =
             [@ EXCEPT !.pc = "returned", !.answer = failure,
                       !.source = IF failure = "none" THEN "upstream" ELSE "mock"]]
    /\ UNCHANGED <<env, config, constructed, dataForSEOClient, ahrefsClient,
                   activeProvider, call, result, gatewayVars, clientVars,
                   routeVars, scraperVars>>

\* One AhrefsClient, its flag unknown, and its callers.
InitExplorer ==
    /\ keywordsExplorerAvailable = "null"
    /\ explorerCalls = [c \in Callers |-> NoExplorerCall]
    /\ submitted = <<>>
    /\ cacheKey = <<>>
    /\ env = [dataforseo |-> FALSE, ahrefs |-> FALSE]
    /\ config = [mockMode |-> FALSE, preferredProvider |-> "auto"]
    /\ constructed = FALSE
    /\ dataForSEOClient = FALSE
    /\ ahrefsClient = FALSE
    /\ activeProvider = "mock"
    /\ call = NoCall
    /\ result = <<>>
    /\ client = "gemini"
    /\ labelCallThrows = FALSE
    /\ now = 0
    /\ breaker = Closed(0)
    /\ limiter = [tokens |-> FullBucket, lastRefillTime |-> 0]
    /\ cache = <<>>
    /\ requests = <<>>
    /\ networkFailures = <<>>
    /\ metrics = NoMetrics
    /\ calls = <<>>
    /\ workload = [callers |-> {}, keys |-> {}, operations |-> {}]
    /\ response = <<>>
    /\ parsedData = <<>>
    /\ extraction = <<>>
    /\ expansion = <<>>
    /\ fetchCall = <<>>
    /\ upstream = <<>>
    /\ settled = <<>>
    /\ delivered = <<>>
    /\ owns = <<>>
    /\ instances = <<>>
    /\ handled = <<>>
    /\ scrapeRun = <<>>
    /\ creditsUsed = <<>>

NextExplorer ==
    \E c \in Callers :
       ExplorerCall(c) \/ ExplorerProbeSettles(c) \/ ExplorerRequestSettles(c)

SpecExplorer == InitExplorer /\ [][NextExplorer]_vars

\* c sends a request to the upstream in this step
SendsRequest(c) == explorerCalls'[c].sent > explorerCalls[c].sent

\* C37: the flag moves only from unknown to available or unavailable, or
\* from available to unavailable on a 403 'Insufficient plan' answer; once
\* unavailable it stays so, and no operation sends a request any more.
C37_FlagSettlesAtUnavailable ==
    [][/\ keywordsExplorerAvailable' # keywordsExplorerAvailable =>
             \/ keywordsExplorerAvailable = "null"
             \/ /\ keywordsExplorerAvailable = "true"
                /\ keywordsExplorerAvailable' = "false"
                /\ \E c \in Callers : /\ explorerCalls'[c] # explorerCalls[c]
                                      /\ explorerCalls'[c].answer = "insufficient"
       /\ keywordsExplorerAvailable = "false" =>
             /\ keywordsExplorerAvailable' = "false"
             /\ \A c \in Callers : ~SendsRequest(c)]_vars

====
